---- MODULE Spec2Model ----
(***************************************************************************)
(* secure-tools: an untrusted Orchestrator (chat loop against the model    *)
(* endpoint) and a trusted SecretsBroker (secret resolution, tool          *)
(* execution, output scrubbing), with the tool registry between them.      *)
(*                                                                         *)
(* Text is a sequence of symbols.  Secret values, executor output and CLI  *)
(* output are sequences of one-character symbols over Chars; the fixed     *)
(* texts of the program (message prefixes) are single symbols that contain *)
(* no character of Chars.  The redaction marker is spelled out character   *)
(* by character because scrubbing scans text that already holds markers.   *)
(***************************************************************************)
EXTENDS Naturals, Sequences, FiniteSets, TLC

VARIABLES
    require_secrets,   \* SecretsBroker.require_secrets
    _executors,        \* SecretsBroker._executors: tool name -> executor
    _secret_refs,      \* SecretsBroker._secret_refs: tool name -> list of references
    _secret_cache,     \* SecretsBroker._secret_cache: URI -> value
    environ,           \* os.environ restricted to the variables the references name
    tool_registry,     \* tools.tool_registry: ordered name -> ToolDefinition
    allowed_tools,     \* config.security.allowed_tools
    conversation,      \* Orchestrator.conversation
    tool_call_count,   \* Orchestrator.tool_call_count
    pc,                \* position of the chat call: "idle", "awaiting_model", "executing"
    response,          \* chat's local: the last answer of the model endpoint
    tc_index,          \* chat's local: how many calls of the response were processed
    chat_result,       \* how the last chat call ended (returned text or raised error)
    last               \* what the last execute_tool call did (observation)

vars == <<require_secrets, _executors, _secret_refs, _secret_cache, environ,
          tool_registry, allowed_tools, conversation, tool_call_count, pc,
          response, tc_index, chat_result, last>>

brokerVars == <<require_secrets, _executors, _secret_refs, _secret_cache>>
orchVars == <<conversation, tool_call_count, pc, response, tc_index, chat_result>>

(***************************************************************************)
(* Bounds and input sets                                                   *)
(***************************************************************************)
MaxContentLen == 1      \* longest text an executor returns or raises
MaxCalls == 2           \* most tool-call requests in one model response
MaxTurns == 2           \* chat calls between two resets
max_tool_calls == 2     \* config.security.max_tool_calls as configured here

Chars == {"y", "z"}
None == "<None>"                 \* Python None in a string-typed field
Unset == <<"<unset>">>           \* Python None where a text is expected
NoUri == <<>>                    \* SecretReference.uri = None
REDACTED == <<"[", "R", "E", "D", "A", "C", "T", "E", "D", "]">>

RECURSIVE TextsOfLen(_)
TextsOfLen(n) ==
    IF n = 0 THEN {<<>>}
    ELSE {Append(t, c) : t \in TextsOfLen(n - 1), c \in Chars}

Texts == UNION {TextsOfLen(n) : n \in 0..MaxContentLen}
SecretValues == {<<"y">>, <<"z">>}

(***************************************************************************)
(* Python str operations                                                   *)
(***************************************************************************)
RECURSIVE FindFrom(_, _, _)
FindFrom(s, sub, i) ==
    IF i + Len(sub) - 1 > Len(s) THEN 0
    ELSE IF SubSeq(s, i, i + Len(sub) - 1) = sub THEN i
    ELSE FindFrom(s, sub, i + 1)

\* sub in s
Contains(s, sub) == FindFrom(s, sub, 1) # 0

\* s.replace(old, new) for a non-empty old: leftmost, non-overlapping
RECURSIVE str_replace(_, _, _)
str_replace(s, old, new) ==
    LET j == FindFrom(s, old, 1) IN
    IF j = 0 THEN s
    ELSE SubSeq(s, 1, j - 1) \o new
         \o str_replace(SubSeq(s, j + Len(old), Len(s)), old, new)

Whitespace == {" ", "\n"}

RECURSIVE lstrip(_)
lstrip(s) == IF s # <<>> /\ Head(s) \in Whitespace THEN lstrip(Tail(s)) ELSE s

RECURSIVE rstrip(_)
rstrip(s) ==
    IF s # <<>> /\ s[Len(s)] \in Whitespace THEN rstrip(SubSeq(s, 1, Len(s) - 1))
    ELSE s

strip(s) == rstrip(lstrip(s))

(***************************************************************************)
(* Python dict with insertion order: a sequence of <<key, value>>          *)
(***************************************************************************)
DictHas(d, k) == \E i \in 1..Len(d) : d[i][1] = k

DictSet(d, k, v) ==
    IF DictHas(d, k)
    THEN [i \in 1..Len(d) |-> IF d[i][1] = k THEN <<k, v>> ELSE d[i]]
    ELSE Append(d, <<k, v>>)

DictKeys(d) == {d[i][1] : i \in 1..Len(d)}
DictValues(d) == {d[i][2] : i \in 1..Len(d)}
DictGet(d, k) == d[CHOOSE i \in 1..Len(d) : d[i][1] = k][2]

(***************************************************************************)
(* SecretReference                                                         *)
(***************************************************************************)
SecretReference(env_var, vault, item, field) ==
    [env_var |-> env_var, vault |-> vault, item |-> item, field |-> field]

\* truthiness of an optional string: neither None nor ""
Truthy(s) == s # None /\ s # ""

uri(ref) ==
    IF Truthy(ref.vault) /\ Truthy(ref.item)
    THEN <<"op://", ref.vault, "/", ref.item, "/", ref.field>>
    ELSE NoUri

has_op_reference(ref) == ref.vault # None /\ ref.item # None
has_env_var(ref) == ref.env_var # None

(***************************************************************************)
(* Inputs of the broker: references, executors, the store CLI              *)
(***************************************************************************)
RefEnv == SecretReference("KEY_A", None, None, "api_key")
RefOp == SecretReference(None, "V", "WeatherAPI", "api_key")
RefBoth == SecretReference("KEY_A", "V", "WeatherAPI", "api_key")
RefNone == SecretReference(None, None, None, "auth_token")
RefOp2 == SecretReference(None, "V", "InternalAPI", "auth_token")

RefLists == {<<>>, <<RefEnv>>, <<RefOp>>, <<RefBoth>>, <<RefNone>>,
             <<RefEnv, RefOp>>, <<RefOp, RefNone>>, <<RefNone, RefOp2>>}

Uris == {uri(RefOp), uri(RefOp2)}
EnvNames == {"KEY_A"}
EnvValues == {Unset, <<>>} \cup SecretValues

BrokerNames == {"get_current_weather", "get_protected_status"}
Executors == {"exec_a", "exec_b"}

\* the register_tool calls made on a broker
Registrations ==
    {[name |-> "get_current_weather", executor |-> e, secrets |-> l]
        : e \in Executors, l \in RefLists}
    \cup {[name |-> "get_protected_status", executor |-> "exec_b",
           secrets |-> <<RefBoth>>]}

\* the diagnostic a failed `op read` writes to stderr
StderrText == "[ERROR] item not found in vault"

\* what one run of `op read <uri>` does: exit 0 with the secret on stdout,
\* a non-zero exit with a diagnostic on stderr, a timeout, or no executable
CliOutcomes ==
    {[kind |-> "exit0", out |-> Append(v, "\n")] : v \in SecretValues}
    \cup {[kind |-> "nonzero", out |-> <<StderrText, "\n">>],
          [kind |-> "timeout", out |-> <<>>],
          [kind |-> "notfound", out |-> <<>>]}

\* what one invocation of an executor does: return a ToolResult or raise
ExecOutcomes ==
    {[kind |-> "return", success |-> b, text |-> t] : b \in BOOLEAN, t \in Texts}
    \cup {[kind |-> "raise", success |-> FALSE, text |-> t] : t \in Texts}

ToolResult(success, content) == [success |-> success, content |-> content]
ToolCall(id, name, arguments) == [id |-> id, name |-> name, arguments |-> arguments]

(***************************************************************************)
(* SecretsBroker: resolution                                               *)
(***************************************************************************)
Resolved(value, source, cache, reads) ==
    [ok |-> TRUE, value |-> value, source |-> source, err |-> <<>>,
     cache |-> cache, reads |-> reads]

Raised(err, cache, reads) ==
    [ok |-> FALSE, value |-> <<>>, source |-> "none", err |-> err,
     cache |-> cache, reads |-> reads]

_get_secret_from_env(ref) ==
    IF ~has_env_var(ref) THEN Unset
    ELSE LET value == IF ref.env_var \in DOMAIN environ
                      THEN environ[ref.env_var] ELSE Unset
         IN IF value # Unset /\ value # <<>> THEN value ELSE Unset

\* variant: the cache is written but never read
_get_secret_from_op_uncached(ref, cache, cli) ==
    IF ~has_op_reference(ref)
    THEN Raised(<<"No 1Password reference configured for this secret">>, cache, <<>>)
    ELSE LET cache_key == uri(ref) IN
         IF cache_key \notin DOMAIN cli
         THEN Raised(<<"TypeError: expected str, bytes or os.PathLike object">>,
                     cache, <<>>)
         ELSE LET run == cli[cache_key] IN
              IF run.kind = "exit0"
              THEN LET secret == strip(run.out)
                   IN Resolved(secret, "op",
                               [u \in DOMAIN cache \cup {cache_key} |->
                                   IF u = cache_key THEN secret ELSE cache[u]],
                               <<cache_key>>)
              ELSE Raised(<<"1Password CLI error">>, cache, <<cache_key>>)

\* variant: a failed read leaves an empty entry for its URI
_get_secret_from_op_caches_failure(ref, cache, cli) ==
    IF ~has_op_reference(ref)
    THEN Raised(<<"No 1Password reference configured for this secret">>, cache, <<>>)
    ELSE LET cache_key == uri(ref) IN
         IF cache_key \in DOMAIN cache
         THEN Resolved(cache[cache_key], "op", cache, <<>>)
         ELSE IF cache_key \notin DOMAIN cli
         THEN Raised(<<"TypeError: expected str, bytes or os.PathLike object">>,
                     cache, <<>>)
         ELSE LET run == cli[cache_key] IN
              IF run.kind = "exit0"
              THEN LET secret == strip(run.out)
                   IN Resolved(secret, "op", cache @@ (cache_key :> secret),
                               <<cache_key>>)
              ELSE Raised(<<"1Password CLI error">>,
                          cache @@ (cache_key :> <<>>), <<cache_key>>)

_get_secret_from_op(ref, cache, cli) ==
    IF ~has_op_reference(ref)
    THEN Raised(<<"No 1Password reference configured for this secret">>, cache, <<>>)
    ELSE LET cache_key == uri(ref) IN
         IF cache_key \in DOMAIN cache
         THEN Resolved(cache[cache_key], "op", cache, <<>>)
         ELSE IF cache_key \notin DOMAIN cli
         THEN Raised(<<"TypeError: expected str, bytes or os.PathLike object">>,
                     cache, <<>>)
         ELSE LET run == cli[cache_key] IN
              CASE run.kind = "exit0" ->
                     LET secret == strip(run.out)
                     IN Resolved(secret, "op", cache @@ (cache_key :> secret),
                                 <<cache_key>>)
                [] run.kind = "nonzero" ->
                     Raised(<<"1Password CLI error: ">> \o strip(run.out), cache,
                            <<cache_key>>)
                [] run.kind = "timeout" ->
                     Raised(<<"1Password CLI timed out">>, cache, <<cache_key>>)
                [] OTHER ->
                     Raised(<<"1Password CLI (op) not found. Install it with: brew install 1password-cli">>,
                            cache, <<cache_key>>)

\* variant: the store is asked first, the environment only without a store
\* reference
_get_secret_store_first(ref, cache, cli) ==
    IF has_op_reference(ref)
    THEN _get_secret_from_op(ref, cache, cli)
    ELSE LET env_value == IF has_env_var(ref) THEN _get_secret_from_env(ref)
                          ELSE Unset
         IN IF env_value # Unset /\ env_value # <<>>
            THEN Resolved(env_value, "env", cache, <<>>)
            ELSE Raised(<<"No secret source configured">>, cache, <<>>)

\* variant: a configured variable that gives nothing ends the resolution
_get_secret_no_fallthrough(ref, cache, cli) ==
    LET env_value == IF has_env_var(ref) THEN _get_secret_from_env(ref) ELSE Unset
    IN IF env_value # Unset /\ env_value # <<>>
       THEN Resolved(env_value, "env", cache, <<>>)
       ELSE IF has_op_reference(ref) /\ ~has_env_var(ref)
       THEN _get_secret_from_op(ref, cache, cli)
       ELSE Raised(<<"No secret source configured for field '", ref.field,
                     "'. Set either env_var or vault/item in tools.yml.">>,
                   cache, <<>>)

_get_secret(ref, cache, cli) ==
    LET env_value == IF has_env_var(ref) THEN _get_secret_from_env(ref) ELSE Unset
    IN IF env_value # Unset /\ env_value # <<>>
       THEN Resolved(env_value, "env", cache, <<>>)
       ELSE IF has_op_reference(ref)
       THEN _get_secret_from_op(ref, cache, cli)
       ELSE Raised(<<"No secret source configured for field '", ref.field,
                     "'. Set either env_var or vault/item in tools.yml.">>,
                   cache, <<>>)

secret_id(ref) ==
    IF has_env_var(ref) THEN <<ref.env_var>> ELSE <<ref.item, "/", ref.field>>

\* variant: the live-mode error carries the text of its cause
ResolveStep_echoes_cause(ref, i, acc, cli) ==
    LET got == _get_secret(ref, acc.cache, cli)
        reads == acc.reads \o [k \in 1..Len(got.reads) |->
                                  [index |-> i, uri |-> got.reads[k],
                                   kind |-> cli[got.reads[k]].kind]]
    IN IF got.ok
       THEN [acc EXCEPT !.secrets = DictSet(@, ref.field, got.value),
                        !.cache = got.cache,
                        !.reads = reads,
                        !.resolved = Append(@, [index |-> i,
                                                field |-> ref.field,
                                                value |-> got.value,
                                                source |-> got.source])]
       ELSE IF require_secrets
       THEN [acc EXCEPT !.ok = FALSE,
                        !.err = <<"Secret '">> \o secret_id(ref)
                                \o <<"' is required but unavailable: ">>
                                \o got.err,
                        !.cache = got.cache,
                        !.reads = reads,
                        !.failed = Append(@, i)]
       ELSE [acc EXCEPT !.cache = got.cache,
                        !.reads = reads,
                        !.failed = Append(@, i)]

\* variant: a failed reference is skipped in live mode too
ResolveStep_always_lenient(ref, i, acc, cli) ==
    LET got == _get_secret(ref, acc.cache, cli)
        reads == acc.reads \o [k \in 1..Len(got.reads) |->
                                  [index |-> i, uri |-> got.reads[k],
                                   kind |-> cli[got.reads[k]].kind]]
    IN IF got.ok
       THEN [acc EXCEPT !.secrets = DictSet(@, ref.field, got.value),
                        !.cache = got.cache,
                        !.reads = reads,
                        !.resolved = Append(@, [index |-> i,
                                                field |-> ref.field,
                                                value |-> got.value,
                                                source |-> got.source])]
       ELSE [acc EXCEPT !.cache = got.cache,
                        !.reads = reads,
                        !.failed = Append(@, i)]

\* variant: a failed reference gets an empty value in mock mode
ResolveStep_empty_on_failure(ref, i, acc, cli) ==
    LET got == _get_secret(ref, acc.cache, cli)
        reads == acc.reads \o [k \in 1..Len(got.reads) |->
                                  [index |-> i, uri |-> got.reads[k],
                                   kind |-> cli[got.reads[k]].kind]]
    IN IF got.ok
       THEN [acc EXCEPT !.secrets = DictSet(@, ref.field, got.value),
                        !.cache = got.cache,
                        !.reads = reads,
                        !.resolved = Append(@, [index |-> i,
                                                field |-> ref.field,
                                                value |-> got.value,
                                                source |-> got.source])]
       ELSE IF require_secrets
       THEN [acc EXCEPT !.ok = FALSE,
                        !.err = <<"Secret '">> \o secret_id(ref)
                                \o <<"' is required but unavailable.">>,
                        !.cache = got.cache,
                        !.reads = reads,
                        !.failed = Append(@, i)]
       ELSE [acc EXCEPT !.secrets = DictSet(@, ref.field, <<>>),
                        !.cache = got.cache,
                        !.reads = reads,
                        !.failed = Append(@, i)]

\* one iteration of the loop of _resolve_secrets, for reference i; acc carries
\* the mapping built so far, the cache, the CLI reads made, every value
\* resolved (with the index of its reference) and the indices that failed
ResolveStep(ref, i, acc, cli) ==
    LET got == _get_secret(ref, acc.cache, cli)
        reads == acc.reads \o [k \in 1..Len(got.reads) |->
                                  [index |-> i, uri |-> got.reads[k],
                                   kind |-> cli[got.reads[k]].kind]]
    IN IF got.ok
       THEN [acc EXCEPT !.secrets = DictSet(@, ref.field, got.value),
                        !.cache = got.cache,
                        !.reads = reads,
                        !.resolved = Append(@, [index |-> i,
                                                field |-> ref.field,
                                                value |-> got.value,
                                                source |-> got.source])]
       ELSE IF require_secrets
       THEN [acc EXCEPT !.ok = FALSE,
                        !.err = <<"Secret '">> \o secret_id(ref)
                                \o <<"' is required but unavailable. Set the environment variable or configure 1Password.">>,
                        !.cache = got.cache,
                        !.reads = reads,
                        !.failed = Append(@, i)]
       ELSE [acc EXCEPT !.cache = got.cache,
                        !.reads = reads,
                        !.failed = Append(@, i)]

\* for ref in refs, until an iteration raises
RECURSIVE ResolveFrom(_, _, _, _)
ResolveFrom(refs, i, acc, cli) ==
    IF i > Len(refs) \/ ~acc.ok THEN acc
    ELSE ResolveFrom(refs, i + 1, ResolveStep(refs[i], i, acc, cli), cli)

RefsOf(tool_name) ==
    IF tool_name \in DOMAIN _secret_refs THEN _secret_refs[tool_name] ELSE <<>>

_resolve_secrets(tool_name, cli) ==
    ResolveFrom(RefsOf(tool_name), 1,
                [ok |-> TRUE, err |-> <<>>, secrets |-> <<>>,
                 cache |-> _secret_cache, reads |-> <<>>, resolved |-> <<>>,
                 failed |-> <<>>],
                cli)

NoCall ==
    [op |-> "none", name |-> None, raised |-> FALSE,
     result |-> ToolResult(FALSE, <<>>), cache |-> <<>>, exc |-> "none",
     ran |-> FALSE, executor |-> None, given |-> <<>>, raw |-> <<>>,
     resolved |-> <<>>, failed |-> <<>>, reads |-> <<>>]

(***************************************************************************)
(* SecretsBroker: scrubbing and execute_tool                               *)
(***************************************************************************)
RECURSIVE ScrubFrom(_, _, _)
ScrubFrom(content, secrets, i) ==
    IF i > Len(secrets) THEN content
    ELSE LET secret == secrets[i][2]
         IN ScrubFrom(IF secret # <<>> THEN str_replace(content, secret, REDACTED)
                      ELSE content,
                      secrets, i + 1)

_scrub_output(content, secrets) == ScrubFrom(content, secrets, 1)

\* {ref.field: self._secret_cache.get(ref.uri, "") for ref in refs}
RECURSIVE CachedSecretsFrom(_, _, _, _)
CachedSecretsFrom(refs, cache, i, d) ==
    IF i > Len(refs) THEN d
    ELSE CachedSecretsFrom(refs, cache, i + 1,
             DictSet(d, refs[i].field,
                     IF uri(refs[i]) \in DOMAIN cache THEN cache[uri(refs[i])]
                     ELSE <<>>))

\* the except clause of execute_tool: the message of the exception, scrubbed
\* with the cached secrets of the tool, becomes a failure result
\* variant: the handler lets the exception out of execute_tool
except_Exception_reraises(name, error_msg, cache) ==
    [raised |-> TRUE, result |-> ToolResult(FALSE, error_msg)]

except_Exception(name, error_msg, cache) ==
    LET msg == IF RefsOf(name) # <<>>
               THEN _scrub_output(error_msg,
                                  CachedSecretsFrom(RefsOf(name), cache, 1, <<>>))
               ELSE error_msg
    IN [raised |-> FALSE,
        result |-> ToolResult(FALSE, <<"Tool execution failed: ">> \o msg)]

\* what execute_tool does for `call`, given what the CLI and the executor do
execute_tool(call, cli, ex) ==
    IF call.name \notin DOMAIN _executors
    THEN [op |-> "execute_tool", name |-> call.name, raised |-> FALSE,
          result |-> ToolResult(FALSE, <<"Tool '", call.name,
                                         "' not registered with secrets broker">>),
          cache |-> _secret_cache, exc |-> "none", ran |-> FALSE,
          executor |-> None, given |-> <<>>, raw |-> <<>>,
          resolved |-> <<>>, failed |-> <<>>, reads |-> <<>>]
    ELSE LET executor == _executors[call.name]
             r == _resolve_secrets(call.name, cli)
             exc == IF ~r.ok THEN "resolve"
                    ELSE IF ex.kind = "raise" THEN "executor" ELSE "none"
             raw == IF ~r.ok THEN r.err ELSE ex.text
             out == IF exc = "none"
                    THEN [raised |-> FALSE,
                          result |-> ToolResult(ex.success,
                                                _scrub_output(ex.text, r.secrets))]
                    ELSE except_Exception(call.name, raw, r.cache)
         IN [op |-> "execute_tool", name |-> call.name, raised |-> out.raised,
             result |-> out.result, cache |-> r.cache, exc |-> exc,
             ran |-> r.ok, executor |-> IF r.ok THEN executor ELSE None,
             given |-> IF r.ok THEN r.secrets ELSE <<>>, raw |-> raw,
             resolved |-> r.resolved, failed |-> r.failed, reads |-> r.reads]

(***************************************************************************)
(* SecretsBroker: operations                                               *)
(***************************************************************************)
\* the URIs a call of `tool_name` may read from the CLI in the current state
ReadsNeeded(tool_name) ==
    {uri(RefsOf(tool_name)[i]) : i \in
        {j \in 1..Len(RefsOf(tool_name)) :
            /\ ~_get_secret(RefsOf(tool_name)[j], _secret_cache, <<>>).ok
            /\ uri(RefsOf(tool_name)[j]) # NoUri}}

SecretsBroker_register_tool(name, executor, secrets) ==
    /\ pc = "idle"
    /\ _executors' = (name :> executor) @@ _executors
    /\ _secret_refs' = IF secrets # <<>> THEN (name :> secrets) @@ _secret_refs
                       ELSE _secret_refs
    /\ last' = [op |-> "SecretsBroker.register_tool", name |-> name,
                executor |-> executor, secrets |-> secrets]
    /\ UNCHANGED <<require_secrets, _secret_cache, environ, tool_registry,
                   allowed_tools, orchVars>>

clear_cache ==
    /\ pc = "idle"
    /\ _secret_cache' = <<>>
    /\ last' = NoCall
    /\ UNCHANGED <<require_secrets, _executors, _secret_refs, environ,
                   tool_registry, allowed_tools, orchVars>>

\* a direct call of SecretsBroker.execute_tool (as the tests make it)
BrokerExecute(call) ==
    /\ pc = "idle"
    /\ \E cli \in [ReadsNeeded(call.name) -> CliOutcomes], ex \in ExecOutcomes :
          LET done == execute_tool(call, cli, ex)
          IN /\ _secret_cache' = done.cache
             /\ last' = done
    /\ UNCHANGED <<require_secrets, _executors, _secret_refs, environ,
                   tool_registry, allowed_tools, orchVars>>

(***************************************************************************)
(* Tool registry                                                           *)
(***************************************************************************)
ToolDefinition(name, description, parameters) ==
    [name |-> name, description |-> description, parameters |-> parameters]

RegistryNames(reg) == {reg[i].name : i \in 1..Len(reg)}
RegistryGet(reg, name) == reg[CHOOSE i \in 1..Len(reg) : reg[i].name = name]

\* variant: every registration adds an entry
register_tool_appends(reg, name, description, parameters) ==
    Append(reg, ToolDefinition(name, description, parameters))

\* tool_registry[name] = tool: an existing key keeps its position
register_tool(reg, name, description, parameters) ==
    IF name \in RegistryNames(reg)
    THEN [i \in 1..Len(reg) |->
            IF reg[i].name = name
            THEN ToolDefinition(name, description, parameters) ELSE reg[i]]
    ELSE Append(reg, ToolDefinition(name, description, parameters))

\* the three definitions registered when the tools module is imported
ModuleRegistry ==
    register_tool(
        register_tool(
            register_tool(<<>>, "get_current_weather", "weather",
                          [required |-> <<"location", "format">>]),
            "get_protected_status", "status", [required |-> <<"project">>]),
        "list_available_services", "services", [required |-> <<>>])

(***************************************************************************)
(* Orchestrator                                                            *)
(***************************************************************************)
Message(role, content, tool_calls, tool_call_id) ==
    [role |-> role, content |-> content, tool_calls |-> tool_calls,
     tool_call_id |-> tool_call_id]

\* a tool-call request of the model: id (None when the key is absent), the
\* function name and the keys of its arguments
Request(id, name, arguments) == [id |-> id, name |-> name, arguments |-> arguments]

Requests ==
    {Request("call_1", "get_current_weather", {"location", "format"}),
     Request("call_2", "get_current_weather", {"format"}),
     Request(None, "delete_everything", {}),
     Request(None, "list_available_services", {})}

RECURSIVE RequestLists(_)
RequestLists(n) ==
    IF n = 0 THEN {<<>>}
    ELSE {<<>>} \cup {<<r>> \o l : r \in Requests, l \in RequestLists(n - 1)}

UserMessages == {<<"hello">>}
FinalContents == {<<"final answer">>}

NoResponse == [kind |-> "none", content |-> <<>>, tool_calls |-> <<>>]
NoResult == [kind |-> "none", text |-> <<>>]
Returned(text) == [kind |-> "returned", text |-> text]
RaisedError(kind, text) == [kind |-> kind, text |-> text]

\* tool_call.get("id", "unknown")
IdOf(tc) == IF tc.id = None THEN "unknown" ELSE tc.id

\* variant: the loop reports the last missing parameter
FirstMissing_reports_last(required, arguments, i) ==
    LET miss == {k \in i..Len(required) : required[k] \notin arguments}
    IN IF miss = {} THEN None
       ELSE required[CHOOSE k \in miss : \A j \in miss : j <= k]

\* the first parameter of `required` that is no key of the arguments, or None
RECURSIVE FirstMissing(_, _, _)
FirstMissing(required, arguments, i) ==
    IF i > Len(required) THEN None
    ELSE IF required[i] \notin arguments THEN required[i]
    ELSE FirstMissing(required, arguments, i + 1)

\* variant: the allow-list is not consulted
_validate_tool_call_ignores_allow_list(tool_call) ==
    LET name == tool_call.name
        call_id == IdOf(tool_call)
        bad(text) == [ok |-> FALSE, call |-> ToolCall(call_id, name, {}),
                      err |-> text]
    IN IF name \notin RegistryNames(tool_registry)
       THEN bad(<<"Unknown tool requested: ", name>>)
       ELSE LET required == RegistryGet(tool_registry, name).parameters.required
                param == FirstMissing(required, tool_call.arguments, 1)
            IN IF param # None
               THEN bad(<<"Missing required parameter '", param, "' for tool '",
                          name, "'">>)
               ELSE [ok |-> TRUE,
                     call |-> ToolCall(call_id, name, tool_call.arguments),
                     err |-> <<>>]

_validate_tool_call(tool_call) ==
    LET name == tool_call.name
        call_id == IdOf(tool_call)
        bad(text) == [ok |-> FALSE, call |-> ToolCall(call_id, name, {}),
                      err |-> text]
    IN IF name \notin RegistryNames(tool_registry)
       THEN bad(<<"Unknown tool requested: ", name>>)
       ELSE IF allowed_tools # {} /\ name \notin allowed_tools
       THEN bad(<<"Tool not allowed: ", name>>)
       ELSE LET required == RegistryGet(tool_registry, name).parameters.required
                param == FirstMissing(required, tool_call.arguments, 1)
            IN IF param # None
               THEN bad(<<"Missing required parameter '", param, "' for tool '",
                          name, "'">>)
               ELSE [ok |-> TRUE,
                     call |-> ToolCall(call_id, name, tool_call.arguments),
                     err |-> <<>>]

\* for name, tool in tool_registry.items(): the entries the allow-list lets
\* through, from entry i on
RECURSIVE ToolDefinitionsFrom(_)
ToolDefinitionsFrom(i) ==
    IF i > Len(tool_registry) THEN <<>>
    ELSE LET tool == tool_registry[i]
         IN IF allowed_tools # {} /\ tool.name \notin allowed_tools
            THEN ToolDefinitionsFrom(i + 1)
            ELSE <<[type |-> "function",
                    function |-> [name |-> tool.name,
                                  description |-> tool.description,
                                  parameters |-> tool.parameters]]>>
                 \o ToolDefinitionsFrom(i + 1)

\* variant: every registered tool is offered
get_tool_definitions_unfiltered ==
    [i \in 1..Len(tool_registry) |->
        [type |-> "function",
         function |-> [name |-> tool_registry[i].name,
                       description |-> tool_registry[i].description,
                       parameters |-> tool_registry[i].parameters]]]

get_tool_definitions == ToolDefinitionsFrom(1)

\* the body _call_ollama posts: the tools key is set only for a non-empty list
payload(messages, include_tools) ==
    LET base == [model |-> "model", messages |-> messages, stream |-> FALSE]
        tools == get_tool_definitions
    IN IF include_tools /\ tools # <<>>
       THEN [model |-> base.model, messages |-> base.messages,
             stream |-> base.stream, tools |-> tools]
       ELSE base

\* the chat calls made since the last reset: one user message each
Turns(conv) == Cardinality({i \in 1..Len(conv) : conv[i].role = "user"})

\* chat(user_message), up to the first request to the model endpoint
ChatStart(user_message) ==
    /\ pc = "idle"
    /\ Turns(conversation) < MaxTurns
    /\ conversation' = Append(conversation,
                              Message("user", user_message, <<>>, None))
    /\ pc' = "awaiting_model"
    /\ response' = NoResponse
    /\ tc_index' = 0
    /\ chat_result' = NoResult
    /\ last' = NoCall
    /\ UNCHANGED <<brokerVars, environ, tool_registry, allowed_tools,
                   tool_call_count>>

\* variant: the error takes the last recorded message back
ChatOllamaError_rolls_back(kind) ==
    /\ pc = "awaiting_model"
    /\ pc' = "idle"
    /\ chat_result' = RaisedError(kind, <<kind>>)
    /\ response' = NoResponse
    /\ tc_index' = 0
    /\ last' = NoCall
    /\ conversation' = SubSeq(conversation, 1, Len(conversation) - 1)
    /\ UNCHANGED <<brokerVars, environ, tool_registry, allowed_tools,
                   tool_call_count>>

\* _call_ollama raises: the endpoint is unreachable, times out, or answers
\* with a body that has no message; the error leaves chat
ChatOllamaError(kind) ==
    /\ pc = "awaiting_model"
    /\ pc' = "idle"
    /\ chat_result' = RaisedError(kind, <<kind>>)
    /\ response' = NoResponse
    /\ tc_index' = 0
    /\ last' = NoCall
    /\ UNCHANGED <<brokerVars, environ, tool_registry, allowed_tools,
                   conversation, tool_call_count>>

\* _call_ollama returns the answer of the model
ChatOllamaAnswers(content, tool_calls) ==
    /\ pc = "awaiting_model"
    /\ pc' = "answered"
    /\ response' = [kind |-> "message", content |-> content,
                    tool_calls |-> tool_calls]
    /\ tc_index' = 0
    /\ last' = NoCall
    /\ UNCHANGED <<brokerVars, environ, tool_registry, allowed_tools,
                   conversation, tool_call_count, chat_result>>

\* variant: the final content is returned without being recorded
ChatFinal_not_recorded ==
    /\ pc = "answered"
    /\ response.tool_calls = <<>>
    /\ pc' = "idle"
    /\ chat_result' = Returned(response.content)
    /\ response' = NoResponse
    /\ last' = NoCall
    /\ UNCHANGED <<brokerVars, environ, tool_registry, allowed_tools,
                   tool_call_count, tc_index, conversation>>

\* the answer has no tool calls: the final response
ChatFinal ==
    /\ pc = "answered"
    /\ response.tool_calls = <<>>
    /\ conversation' = Append(conversation,
                              Message("assistant", response.content, <<>>, None))
    /\ pc' = "idle"
    /\ chat_result' = Returned(response.content)
    /\ response' = NoResponse
    /\ last' = NoCall
    /\ UNCHANGED <<brokerVars, environ, tool_registry, allowed_tools,
                   tool_call_count, tc_index>>

\* self.tool_call_count > config.security.max_tool_calls
\* variant: the turn aborts when the count reaches the maximum
LimitExceeded_at_maximum(count) == count >= max_tool_calls

\* variant: one count above the maximum still passes
LimitExceeded_one_above(count) == count > max_tool_calls + 1

\* if self.tool_call_count > self.config.max_tool_calls
LimitExceeded(count) == count > max_tool_calls

\* variant: the response that is refused does not count
ChatToolCalls_abort_restores_count ==
    /\ pc = "answered"
    /\ response.tool_calls # <<>>
    /\ IF LimitExceeded(tool_call_count + Len(response.tool_calls))
       THEN /\ pc' = "idle"
            /\ chat_result' = RaisedError("RuntimeError",
                                  <<"Tool call limit exceeded. This may indicate a runaway agent.">>)
            /\ UNCHANGED <<conversation, response, tool_call_count>>
       ELSE /\ pc' = "executing"
            /\ tool_call_count' = tool_call_count + Len(response.tool_calls)
            /\ conversation' = Append(conversation,
                                      Message("assistant", response.content,
                                              response.tool_calls, None))
            /\ UNCHANGED <<chat_result, response>>
    /\ last' = NoCall
    /\ UNCHANGED <<brokerVars, environ, tool_registry, allowed_tools, tc_index>>

\* variant: the assistant message is recorded before the limit is checked
ChatToolCalls_records_before_check ==
    /\ pc = "answered"
    /\ response.tool_calls # <<>>
    /\ tool_call_count' = tool_call_count + Len(response.tool_calls)
    /\ conversation' = Append(conversation,
                              Message("assistant", response.content,
                                      response.tool_calls, None))
    /\ IF LimitExceeded(tool_call_count')
       THEN /\ pc' = "idle"
            /\ chat_result' = RaisedError("RuntimeError",
                                  <<"Tool call limit exceeded. This may indicate a runaway agent.">>)
            /\ UNCHANGED response
       ELSE /\ pc' = "executing"
            /\ UNCHANGED <<chat_result, response>>
    /\ last' = NoCall
    /\ UNCHANGED <<brokerVars, environ, tool_registry, allowed_tools, tc_index>>

\* variant: the count is that of the current response alone
ChatToolCalls_counts_per_response ==
    /\ pc = "answered"
    /\ response.tool_calls # <<>>
    /\ tool_call_count' = Len(response.tool_calls)
    /\ IF LimitExceeded(tool_call_count')
       THEN /\ pc' = "idle"
            /\ chat_result' = RaisedError("RuntimeError",
                                  <<"Tool call limit exceeded. This may indicate a runaway agent.">>)
            /\ UNCHANGED <<conversation, response>>
       ELSE /\ pc' = "executing"
            /\ conversation' = Append(conversation,
                                      Message("assistant", response.content,
                                              response.tool_calls, None))
            /\ UNCHANGED <<chat_result, response>>
    /\ last' = NoCall
    /\ UNCHANGED <<brokerVars, environ, tool_registry, allowed_tools, tc_index>>

\* the answer has tool calls: the limit check, then the assistant message
\* that carries the calls
ChatToolCalls ==
    /\ pc = "answered"
    /\ response.tool_calls # <<>>
    /\ tool_call_count' = tool_call_count + Len(response.tool_calls)
    /\ IF LimitExceeded(tool_call_count')
       THEN /\ pc' = "idle"
            /\ chat_result' = RaisedError("RuntimeError",
                                  <<"Tool call limit exceeded. This may indicate a runaway agent.">>)
            /\ UNCHANGED <<conversation, response>>
       ELSE /\ pc' = "executing"
            /\ conversation' = Append(conversation,
                                      Message("assistant", response.content,
                                              response.tool_calls, None))
            /\ UNCHANGED <<chat_result, response>>
    /\ last' = NoCall
    /\ UNCHANGED <<brokerVars, environ, tool_registry, allowed_tools, tc_index>>

\* variant: the message carries the id of the request as it came, without the
\* "unknown" fallback
ToolMessage_raw_id(tc, validated, done) ==
    IF validated.ok
    THEN Message("tool", done.result.content, <<>>, tc.id)
    ELSE Message("tool", <<"Error executing tool: ">> \o validated.err, <<>>,
                 tc.id)

\* the tool message the loop appends for one request: the broker's result
\* for a valid call, the error text otherwise
ToolMessage(tc, validated, done) ==
    IF validated.ok
    THEN Message("tool", done.result.content, <<>>, validated.call.id)
    ELSE Message("tool", <<"Error executing tool: ">> \o validated.err, <<>>,
                 IdOf(tc))

\* variant: a validation failure leaves chat as an error
ChatExecuteNext_raises_on_invalid ==
    /\ pc = "executing"
    /\ LET tc == response.tool_calls[tc_index + 1]
           validated == _validate_tool_call(tc)
       IN IF validated.ok
          THEN /\ \E cli \in [ReadsNeeded(validated.call.name) -> CliOutcomes],
                     ex \in ExecOutcomes :
                     LET done == execute_tool(validated.call, cli, ex)
                     IN /\ _secret_cache' = done.cache
                        /\ last' = done
                        /\ conversation' =
                              Append(conversation, ToolMessage(tc, validated, done))
               /\ tc_index' = tc_index + 1
               /\ pc' = IF tc_index' = Len(response.tool_calls)
                        THEN "awaiting_model" ELSE "executing"
               /\ UNCHANGED chat_result
          ELSE /\ pc' = "idle"
               /\ chat_result' = RaisedError("ValueError", validated.err)
               /\ last' = NoCall
               /\ UNCHANGED <<conversation, _secret_cache, tc_index>>
    /\ UNCHANGED <<require_secrets, _executors, _secret_refs, environ,
                   tool_registry, allowed_tools, tool_call_count, response>>

\* variant: a failed resolution of a secret leaves chat as an error
ChatExecuteNext_fatal_on_resolution ==
    /\ pc = "executing"
    /\ LET tc == response.tool_calls[tc_index + 1]
           validated == _validate_tool_call(tc)
       IN IF validated.ok
          THEN \E cli \in [ReadsNeeded(validated.call.name) -> CliOutcomes],
                  ex \in ExecOutcomes :
                  LET done == execute_tool(validated.call, cli, ex)
                  IN /\ _secret_cache' = done.cache
                     /\ last' = done
                     /\ IF done.exc = "resolve"
                        THEN /\ pc' = "idle"
                             /\ chat_result' = RaisedError("RuntimeError", done.raw)
                             /\ UNCHANGED <<conversation, tc_index>>
                        ELSE /\ conversation' =
                                   Append(conversation,
                                          ToolMessage(tc, validated, done))
                             /\ tc_index' = tc_index + 1
                             /\ pc' = IF tc_index' = Len(response.tool_calls)
                                      THEN "awaiting_model" ELSE "executing"
                             /\ UNCHANGED chat_result
          ELSE /\ conversation' =
                     Append(conversation, ToolMessage(tc, validated, NoCall))
               /\ last' = NoCall
               /\ tc_index' = tc_index + 1
               /\ pc' = IF tc_index' = Len(response.tool_calls)
                        THEN "awaiting_model" ELSE "executing"
               /\ UNCHANGED <<_secret_cache, chat_result>>
    /\ UNCHANGED <<require_secrets, _executors, _secret_refs, environ,
                   tool_registry, allowed_tools, tool_call_count, response>>

\* variant: the request goes to the broker as it came
ChatExecuteNext_executes_unvalidated ==
    /\ pc = "executing"
    /\ LET tc == response.tool_calls[tc_index + 1]
           call == ToolCall(IdOf(tc), tc.name, tc.arguments)
           validated == [ok |-> TRUE, call |-> call, err |-> <<>>]
       IN /\ \E cli \in [ReadsNeeded(call.name) -> CliOutcomes],
                ex \in ExecOutcomes :
                LET done == execute_tool(call, cli, ex)
                IN /\ _secret_cache' = done.cache
                   /\ last' = done
                   /\ conversation' =
                         Append(conversation, ToolMessage(tc, validated, done))
          /\ tc_index' = tc_index + 1
          /\ pc' = IF tc_index' = Len(response.tool_calls)
                   THEN "awaiting_model" ELSE "executing"
    /\ UNCHANGED <<require_secrets, _executors, _secret_refs, environ,
                   tool_registry, allowed_tools, tool_call_count, response,
                   chat_result>>

\* one iteration of `for tc in tool_calls`
ChatExecuteNext ==
    /\ pc = "executing"
    /\ LET tc == response.tool_calls[tc_index + 1]
           validated == _validate_tool_call(tc)
       IN /\ IF validated.ok
             THEN \E cli \in [ReadsNeeded(validated.call.name) -> CliOutcomes],
                     ex \in ExecOutcomes :
                     LET done == execute_tool(validated.call, cli, ex)
                     IN /\ _secret_cache' = done.cache
                        /\ last' = done
                        /\ conversation' =
                              Append(conversation, ToolMessage(tc, validated, done))
             ELSE /\ conversation' =
                        Append(conversation, ToolMessage(tc, validated, NoCall))
                  /\ last' = NoCall
                  /\ UNCHANGED _secret_cache
          /\ tc_index' = tc_index + 1
          /\ pc' = IF tc_index' = Len(response.tool_calls)
                   THEN "awaiting_model" ELSE "executing"
    /\ UNCHANGED <<require_secrets, _executors, _secret_refs, environ,
                   tool_registry, allowed_tools, tool_call_count, response,
                   chat_result>>

\* a KeyboardInterrupt while chat waits for the model or runs a tool: no
\* handler of chat or of execute_tool catches it (both catch Exception), and
\* the interactive loop of main.chat leaves on it
Interrupt ==
    /\ pc \in {"awaiting_model", "executing"}
    /\ pc' = "stopped"
    /\ chat_result' = RaisedError("KeyboardInterrupt", <<>>)
    /\ response' = NoResponse
    /\ tc_index' = 0
    /\ last' = NoCall
    /\ UNCHANGED <<brokerVars, environ, tool_registry, allowed_tools,
                   conversation, tool_call_count>>

\* variant: reset also empties the broker's cache
reset_clears_cache ==
    /\ pc = "idle"
    /\ conversation' = <<>>
    /\ tool_call_count' = 0
    /\ _secret_cache' = <<>>
    /\ last' = [NoCall EXCEPT !.op = "reset"]
    /\ UNCHANGED <<require_secrets, _executors, _secret_refs, environ,
                   tool_registry, allowed_tools, pc, response, tc_index,
                   chat_result>>

\* variant: reset keeps the counter
reset_keeps_count ==
    /\ pc = "idle"
    /\ conversation' = <<>>
    /\ last' = [NoCall EXCEPT !.op = "reset"]
    /\ UNCHANGED <<brokerVars, environ, tool_registry, allowed_tools, pc,
                   response, tc_index, chat_result, tool_call_count>>

ResetCall == [NoCall EXCEPT !.op = "reset"]

reset ==
    /\ pc = "idle"
    /\ conversation' = <<>>
    /\ tool_call_count' = 0
    /\ last' = ResetCall
    /\ UNCHANGED <<brokerVars, environ, tool_registry, allowed_tools, pc,
                   response, tc_index, chat_result>>

(***************************************************************************)
(* Specifications                                                          *)
(***************************************************************************)
\* a new Orchestrator: Orchestrator.__init__
NewOrchestrator ==
    /\ conversation = <<>>
    /\ tool_call_count = 0
    /\ pc = "idle"
    /\ response = NoResponse
    /\ tc_index = 0
    /\ chat_result = NoResult

\* a new SecretsBroker in a process environment: SecretsBroker.__init__
InitBroker ==
    /\ require_secrets \in BOOLEAN
    /\ _executors = <<>>
    /\ _secret_refs = <<>>
    /\ _secret_cache = <<>>
    /\ environ \in [EnvNames -> EnvValues]
    /\ tool_registry = ModuleRegistry
    /\ allowed_tools = {}
    /\ last = NoCall
    /\ NewOrchestrator

NextBroker ==
    \/ \E reg \in Registrations :
          SecretsBroker_register_tool(reg.name, reg.executor, reg.secrets)
    \/ \E name \in BrokerNames \cup {"list_available_services"} :
          BrokerExecute(ToolCall("test", name, {}))
    \/ clear_cache

SpecBroker == InitBroker /\ [][NextBroker]_vars

\* --- the tool registry and the validation of requests, called directly ----
DefinitionNames == {"get_current_weather", "list_available_services", "new_tool"}
Descriptions == {"weather", "updated"}
ParameterSchemas == {[required |-> <<>>],
                     [required |-> <<"location", "format">>]}
AllowLists == {{}, {"get_current_weather"}, {"delete_everything"},
               {"get_current_weather", "list_available_services"}}
ValidateInputs ==
    Requests \cup {Request("call_4", "get_current_weather", {}),
                   Request("call_5", "new_tool", {"location"})}

\* tools.register_tool(name, description, parameters)
RegisterDefinition(name, description, parameters) ==
    /\ pc = "idle"
    /\ tool_registry' = register_tool(tool_registry, name, description, parameters)
    /\ last' = [op |-> "register_tool", name |-> name,
                description |-> description, parameters |-> parameters]
    /\ UNCHANGED <<brokerVars, environ, allowed_tools, orchVars>>

\* orchestrator._validate_tool_call(request), as the tests call it
ValidateCall(request) ==
    /\ pc = "idle"
    /\ last' = [op |-> "_validate_tool_call", request |-> request,
                out |-> _validate_tool_call(request)]
    /\ UNCHANGED <<brokerVars, environ, tool_registry, allowed_tools, orchVars>>

\* _call_ollama up to the post: the tool catalog and the body sent
BuildPayload ==
    /\ pc = "idle"
    /\ last' = [op |-> "_call_ollama", tools |-> get_tool_definitions,
                payload |-> payload(<<>>, TRUE)]
    /\ UNCHANGED <<brokerVars, environ, tool_registry, allowed_tools, orchVars>>

InitRegistry ==
    /\ require_secrets = FALSE
    /\ _executors = <<>>
    /\ _secret_refs = <<>>
    /\ _secret_cache = <<>>
    /\ environ \in [EnvNames -> {Unset}]
    /\ tool_registry \in {<<>>, ModuleRegistry}
    /\ allowed_tools \in AllowLists
    /\ last = NoCall
    /\ NewOrchestrator

NextRegistry ==
    \/ \E name \in DefinitionNames, description \in Descriptions,
          parameters \in ParameterSchemas :
          RegisterDefinition(name, description, parameters)
    \/ \E request \in ValidateInputs : ValidateCall(request)
    \/ BuildPayload

SpecRegistry == InitRegistry /\ [][NextRegistry]_vars

\* --- the weather executor, called directly -------------------------------
\* str.lower on the words the inputs use
lower_word(w) ==
    CASE w = "London" -> "london"
      [] w = "PARIS" -> "paris"
      [] w = "Tokyo" -> "tokyo"
      [] w = "New" -> "new"
      [] w = "York" -> "york"
      [] w = "San" -> "san"
      [] w = "Francisco" -> "francisco"
      [] w = "UK" -> "uk"
      [] w = "Atlantis" -> "atlantis"
      [] w = "Unknown" -> "unknown"
      [] OTHER -> w

str_lower(s) == [i \in 1..Len(s) |-> lower_word(s[i])]

\* s.split(",")[0]
split_comma_first(s) ==
    LET commas == {i \in 1..Len(s) : s[i] = ","}
    IN IF commas = {} THEN s
       ELSE SubSeq(s, 1, (CHOOSE i \in commas : \A j \in commas : i <= j) - 1)

mock_data ==
    (<<"paris">> :> [temp_c |-> 12, condition |-> "cloudy"])
    @@ (<<"london">> :> [temp_c |-> 8, condition |-> "rainy"])
    @@ (<<"tokyo">> :> [temp_c |-> 18, condition |-> "sunny"])
    @@ (<<"new", " ", "york">> :> [temp_c |-> 5, condition |-> "windy"])
    @@ (<<"san", " ", "francisco">> :> [temp_c |-> 15, condition |-> "foggy"])

mock_default == [temp_c |-> 20, condition |-> "partly cloudy"]

\* variant: the fraction is cut off
python_round_truncates(n, d) == n \div d

\* round(n / d) for n >= 0, d > 0: to the nearest integer, a tie to the even one
python_round(n, d) ==
    LET q == n \div d
        r == n % d
    IN IF 2 * r < d THEN q
       ELSE IF 2 * r > d THEN q + 1
       ELSE IF q % 2 = 0 THEN q ELSE q + 1

\* json.dumps(obj): a text that holds the object
json_dumps(obj) == <<"json", obj>>

_mock_weather(location, temp_format) ==
    LET loc_key == strip(split_comma_first(str_lower(location)))
        data == IF loc_key \in DOMAIN mock_data THEN mock_data[loc_key]
                ELSE mock_default
        temp_c == data.temp_c
        temp == IF temp_format = "fahrenheit"
                THEN python_round(temp_c * 9 + 32 * 5, 5) ELSE temp_c
        unit == IF temp_format = "fahrenheit" THEN "F" ELSE "C"
    IN ToolResult(TRUE,
                  json_dumps([location |-> location,
                              temperature |-> <<ToString(temp), "deg", unit>>,
                              condition |-> data.condition,
                              source |-> "mock_data"]))

\* arguments.get(key, default) for the arguments of a call
ArgGet(arguments, key, default) ==
    IF key \in DOMAIN arguments THEN arguments[key] ELSE default

\* what _real_weather_api does: the request fails, or the service answers
ApiOutcomes ==
    {[kind |-> "raise"],
     [kind |-> "return", temp |-> "11.3", condition |-> "clear sky",
      humidity |-> "40"]}

execute_get_current_weather(arguments, secrets, api) ==
    LET location == ArgGet(arguments, "location", <<"Unknown">>)
        temp_format == ArgGet(arguments, "format", "celsius")
        api_key == IF DictHas(secrets, "api_key")
                   THEN DictGet(secrets, "api_key") ELSE Unset
    IN IF api_key = Unset \/ api_key = <<>>
       THEN _mock_weather(location, temp_format)
       ELSE IF api.kind = "raise"
       THEN ToolResult(TRUE,
                       <<"Weather API unavailable, using cached data. ">>
                       \o _mock_weather(location, temp_format).content)
       ELSE ToolResult(TRUE,
                       json_dumps([location |-> location,
                                   temperature |->
                                       <<api.temp, "deg",
                                         IF temp_format = "celsius" THEN "C" ELSE "F">>,
                                   condition |-> api.condition,
                                   humidity |-> <<api.humidity, "%">>,
                                   source |-> "openweathermap"]))

Locations ==
    {<<"London">>, <<"london">>, <<"PARIS", ",", " ", "FR">>,
     <<" ", "Tokyo", " ">>, <<"New", " ", "York">>,
     <<"San", " ", "Francisco", ",", "CA">>, <<"Atlantis">>,
     <<"Atlantis", ",", "london">>}
Formats == {"celsius", "fahrenheit", "kelvin"}
WeatherArguments ==
    {[location |-> l, format |-> f] : l \in Locations, f \in Formats}
    \cup {[location |-> l] : l \in Locations}
    \cup {[format |-> f] : f \in Formats}
WeatherSecrets ==
    {<<>>, <<<<"api_key", <<>>>>>>, <<<<"api_key", <<"y">>>>>>,
     <<<<"auth_token", <<"z">>>>>>}

\* execute_get_current_weather(arguments, secrets), as the tests call it
ExecuteWeather(arguments, secrets, api) ==
    /\ pc = "idle"
    /\ last' = [op |-> "execute_get_current_weather", arguments |-> arguments,
                secrets |-> secrets,
                result |-> execute_get_current_weather(arguments, secrets, api)]
    /\ UNCHANGED <<brokerVars, environ, tool_registry, allowed_tools, orchVars>>

InitWeather ==
    /\ require_secrets = FALSE
    /\ _executors = <<>>
    /\ _secret_refs = <<>>
    /\ _secret_cache = <<>>
    /\ environ \in [EnvNames -> {Unset}]
    /\ tool_registry = ModuleRegistry
    /\ allowed_tools = {}
    /\ last = NoCall
    /\ NewOrchestrator

NextWeather ==
    \E arguments \in WeatherArguments, secrets \in WeatherSecrets,
       api \in ApiOutcomes : ExecuteWeather(arguments, secrets, api)

SpecWeather == InitWeather /\ [][NextWeather]_vars

\* --- SecretReference and _get_secret_from_op, called directly -------------
\* the dataclass constructor: a field that is not passed takes its default
\* (env_var, vault and item default to None, field to "password")
SecretReference_init(env_var, vault, item, field) ==
    SecretReference(env_var, vault, item,
                    IF field = None THEN "password" ELSE field)

ReferenceEnvVars == {None, "KEY_A"}
ReferenceVaults == {None, "", "V", "W"}
ReferenceItems == {None, "", "WeatherAPI", "InternalAPI"}
ReferenceFields == {None, "api_key"}

\* a reference is built, its properties are read and _get_secret_from_op is
\* called on it with an empty cache
ReadReference(env_var, vault, item, field) ==
    /\ pc = "idle"
    /\ LET ref == SecretReference_init(env_var, vault, item, field)
       IN \E cli \in [{uri(ref)} \ {NoUri} -> CliOutcomes] :
             last' = [op |-> "SecretReference", ref |-> ref,
                      field_given |-> field,
                      uri |-> uri(ref),
                      has_op_reference |-> has_op_reference(ref),
                      has_env_var |-> has_env_var(ref),
                      from_op |-> _get_secret_from_op(ref, _secret_cache, cli)]
    /\ UNCHANGED <<brokerVars, environ, tool_registry, allowed_tools, orchVars>>

InitReference ==
    /\ require_secrets = FALSE
    /\ _executors = <<>>
    /\ _secret_refs = <<>>
    /\ _secret_cache = <<>>
    /\ environ \in [EnvNames -> {Unset}]
    /\ tool_registry = ModuleRegistry
    /\ allowed_tools = {}
    /\ last = NoCall
    /\ NewOrchestrator

NextReference ==
    \E env_var \in ReferenceEnvVars, vault \in ReferenceVaults,
       item \in ReferenceItems, field \in ReferenceFields :
       ReadReference(env_var, vault, item, field)

SpecReference == InitReference /\ [][NextReference]_vars

\* --- tools.loader: the tools of a configuration file ----------------------
TOOL_EXECUTORS ==
    ("get_current_weather" :> "execute_get_current_weather")
    @@ ("get_protected_status" :> "execute_get_protected_status")
    @@ ("list_available_services" :> "execute_list_available_services")

\* SecretConfig: item, and field with its default
SecretConfig(item, field) ==
    [item |-> item, field |-> IF field = None THEN "password" ELSE field]

\* one entry of ToolsConfig.tools: the key and its ToolConfig
ToolConfig(name, description, executor, parameters, secrets) ==
    [name |-> name, description |-> description, executor |-> executor,
     parameters |-> parameters, secrets |-> secrets]

\* variant: the references are built with the default vault
BuildSecretRefs_default_vault(vault, secrets) ==
    [k \in 1..Len(secrets) |->
        SecretReference(None, "SecureTools", secrets[k].item, secrets[k].field)]

\* [SecretReference(vault=vault, item=secret.item, field=secret.field)
\*  for secret in tool_config.secrets]
BuildSecretRefs(vault, secrets) ==
    [k \in 1..Len(secrets) |->
        SecretReference(None, vault, secrets[k].item, secrets[k].field)]

\* the loop of setup_tools_from_config from entry i on; acc holds the
\* registry, the broker's two mappings and the names registered so far
RECURSIVE SetupFrom(_, _, _, _)
SetupFrom(tools, i, vault, acc) ==
    IF i > Len(tools) THEN acc
    ELSE LET tool_config == tools[i]
             tool_name == tool_config.name
         IN IF tool_config.executor \notin DOMAIN TOOL_EXECUTORS
            THEN [acc EXCEPT !.raised = TRUE,
                             !.err = RaisedError("ValueError",
                                        <<"Unknown executor '", tool_config.executor,
                                          "' for tool '", tool_name, "'">>)]
            ELSE LET secret_refs == BuildSecretRefs(vault, tool_config.secrets)
                 IN SetupFrom(tools, i + 1, vault,
                       [acc EXCEPT
                          !.registry = register_tool(@, tool_name,
                                                     tool_config.description,
                                                     tool_config.parameters),
                          !.executors =
                              (tool_name :> TOOL_EXECUTORS[tool_config.executor]) @@ @,
                          !.refs = IF secret_refs # <<>>
                                   THEN (tool_name :> secret_refs) @@ @
                                   ELSE @,
                          !.registered = Append(@, tool_name)])

ConfigNames == {"get_current_weather", "new_tool"}
ConfigExecutors == {"get_current_weather", "list_available_services",
                    "nonexistent_executor"}
ConfigSecrets == {<<>>,
                  <<SecretConfig("WeatherAPI", "api_key")>>,
                  <<SecretConfig("WeatherAPI", "api_key"),
                    SecretConfig("InternalAPI", None)>>}
ConfigEntries ==
    {ToolConfig(n, "updated", e, [required |-> <<>>], sc)
        : n \in ConfigNames, e \in ConfigExecutors, sc \in ConfigSecrets}

\* ToolsConfig.tools: a mapping, so no name occurs twice, in file order
MaxTools == 2
ToolsConfigs ==
    {<<>>} \cup {<<a>> : a \in ConfigEntries}
    \cup {p \in ConfigEntries \X ConfigEntries : p[1].name # p[2].name}
Vaults == {"SecureTools", "TestVault"}

\* broker = SecretsBroker(); setup_tools_from_config(broker, vault, path)
\* with the file at path holding `tools`
setup_tools_from_config(tools, vault) ==
    /\ pc = "idle"
    /\ Len(tools) <= MaxTools
    /\ LET done == SetupFrom(tools, 1, vault,
                             [registry |-> tool_registry, executors |-> <<>>,
                              refs |-> <<>>, registered |-> <<>>,
                              raised |-> FALSE, err |-> NoResult])
       IN /\ tool_registry' = done.registry
          /\ _executors' = done.executors
          /\ _secret_refs' = done.refs
          /\ last' = [op |-> "setup_tools_from_config", tools |-> tools,
                      vault |-> vault, raised |-> done.raised,
                      err |-> done.err, registered |-> done.registered]
    /\ _secret_cache' = <<>>
    /\ UNCHANGED <<require_secrets, environ, allowed_tools, orchVars>>

\* tool_registry.clear()
clear_tool_registry ==
    /\ pc = "idle"
    /\ tool_registry' = <<>>
    /\ last' = [NoCall EXCEPT !.op = "clear_tool_registry"]
    /\ UNCHANGED <<brokerVars, environ, allowed_tools, orchVars>>

InitLoader ==
    /\ require_secrets = FALSE
    /\ _executors = <<>>
    /\ _secret_refs = <<>>
    /\ _secret_cache = <<>>
    /\ environ \in [EnvNames -> {Unset}]
    /\ tool_registry = ModuleRegistry
    /\ allowed_tools = {}
    /\ last = NoCall
    /\ NewOrchestrator

NextLoader ==
    \/ \E tools \in ToolsConfigs, vault \in Vaults :
          setup_tools_from_config(tools, vault)
    \/ clear_tool_registry

SpecLoader == InitLoader /\ [][NextLoader]_vars

\* --- _scrub_output and the scrubbing step of execute_tool, called directly -
\* texts over an alphabet that shares "[" with the marker
MaxScrubLen == 2
ScrubChars == {"y", "z", "["}
RECURSIVE ScrubTextsOfLen(_)
ScrubTextsOfLen(n) ==
    IF n = 0 THEN {<<>>}
    ELSE {Append(t, c) : t \in ScrubTextsOfLen(n - 1), c \in ScrubChars}
ScrubTexts == UNION {ScrubTextsOfLen(n) : n \in 0..MaxScrubLen}
ScrubSecretValues == ScrubTexts \ {<<>>}

\* the field-to-value mappings handed to _scrub_output: one or two fields
ScrubSecrets ==
    {<<<<"api_key", v>>>> : v \in ScrubSecretValues}
    \cup {<<<<"api_key", v>>, <<"auth_token", w>>>>
            : v \in ScrubSecretValues, w \in ScrubTextsOfLen(1)}

\* _scrub_output(content, secrets), with the content after the first pass of
\* its loop
ScrubOutput(content, secrets) ==
    /\ pc = "idle"
    /\ last' = [op |-> "_scrub_output", content |-> content,
                secrets |-> secrets,
                first |-> _scrub_output(content, <<secrets[1]>>),
                out |-> _scrub_output(content, secrets)]
    /\ UNCHANGED <<brokerVars, environ, tool_registry, allowed_tools, orchVars>>

\* an executor that returns prefix + secrets["api_key"] + suffix
embedding_executor(prefix, suffix, secrets) ==
    ToolResult(TRUE, prefix \o DictGet(secrets, "api_key") \o suffix)

\* steps 2 and 3 of execute_tool: the executor runs, its content is scrubbed
ExecuteAndScrub(prefix, suffix, secrets) ==
    LET result == embedding_executor(prefix, suffix, secrets)
    IN ToolResult(result.success, _scrub_output(result.content, secrets))

\* two runs of that executor that differ in the value of the secret alone
ExecuteTwice(prefix, suffix, v1, v2) ==
    /\ pc = "idle"
    /\ last' = [op |-> "execute_twice", prefix |-> prefix, suffix |-> suffix,
                v1 |-> v1, v2 |-> v2,
                result1 |-> ExecuteAndScrub(prefix, suffix, <<<<"api_key", v1>>>>),
                result2 |-> ExecuteAndScrub(prefix, suffix, <<<<"api_key", v2>>>>)]
    /\ UNCHANGED <<brokerVars, environ, tool_registry, allowed_tools, orchVars>>

InitScrub ==
    /\ require_secrets = FALSE
    /\ _executors = <<>>
    /\ _secret_refs = <<>>
    /\ _secret_cache = <<>>
    /\ environ \in [EnvNames -> {Unset}]
    /\ tool_registry = ModuleRegistry
    /\ allowed_tools = {}
    /\ last = NoCall
    /\ NewOrchestrator

NextScrub ==
    \/ \E content \in ScrubTexts, secrets \in ScrubSecrets :
          ScrubOutput(content, secrets)
    \/ \E prefix \in ScrubTextsOfLen(0) \cup ScrubTextsOfLen(1),
          suffix \in ScrubTextsOfLen(0) \cup ScrubTextsOfLen(1),
          v1 \in ScrubSecretValues, v2 \in ScrubTextsOfLen(1) :
          ExecuteTwice(prefix, suffix, v1, v2)

SpecScrub == InitScrub /\ [][NextScrub]_vars

\* the registrations a broker holds when the orchestrator is created
Wirings ==
    {[executors |-> ("get_current_weather" :> "exec_a")
                    @@ ("get_protected_status" :> "exec_b"),
      refs |-> ("get_current_weather" :> w) @@ ("get_protected_status" :> <<RefOp2>>)]
        : w \in {<<RefOp>>, <<RefEnv, RefOp>>}}

\* main.create_orchestrator: a broker with its tools registered, then the
\* orchestrator on top of it
Init ==
    /\ require_secrets \in BOOLEAN
    /\ \E w \in Wirings : _executors = w.executors /\ _secret_refs = w.refs
    /\ _secret_cache = <<>>
    /\ environ \in [EnvNames -> EnvValues]
    /\ tool_registry = ModuleRegistry
    /\ allowed_tools \in {{}, {"list_available_services"}}
    /\ last = NoCall
    /\ NewOrchestrator

Next ==
    \/ \E m \in UserMessages : ChatStart(m)
    \/ \E kind \in {"OllamaConnectionError", "OllamaResponseError"} :
          ChatOllamaError(kind)
    \/ \E content \in FinalContents : ChatOllamaAnswers(content, <<>>)
    \/ \E tool_calls \in RequestLists(MaxCalls) \ {<<>>} :
          ChatOllamaAnswers(<<>>, tool_calls)
    \/ ChatFinal
    \/ ChatToolCalls
    \/ ChatExecuteNext
    \/ Interrupt
    \/ reset
    \/ clear_cache

Spec == Init /\ [][Next]_vars

\* --- the chat loop under fair scheduling ----------------------------------
\* one orchestrator as main.create_orchestrator builds it, no variable set in
\* the environment
InitChat ==
    /\ require_secrets \in BOOLEAN
    /\ _executors = ("get_current_weather" :> "exec_a")
                    @@ ("get_protected_status" :> "exec_b")
    /\ _secret_refs = ("get_current_weather" :> <<RefOp>>)
                      @@ ("get_protected_status" :> <<RefOp2>>)
    /\ _secret_cache = <<>>
    /\ environ \in [EnvNames -> {Unset}]
    /\ tool_registry = ModuleRegistry
    /\ allowed_tools = {}
    /\ last = NoCall
    /\ NewOrchestrator

\* the request to the model returns or raises (the HTTP client has a
\* timeout), and every statement of the loop runs to its end
ModelResponds ==
    \/ \E kind \in {"OllamaConnectionError", "OllamaResponseError"} :
          ChatOllamaError(kind)
    \/ \E content \in FinalContents : ChatOllamaAnswers(content, <<>>)
    \/ \E tool_calls \in RequestLists(MaxCalls) \ {<<>>} :
          ChatOllamaAnswers(<<>>, tool_calls)

\* WF_vars(ChatExecuteNext) with its ENABLED written out: an iteration of the
\* tool loop can run exactly when the loop is at a request
ChatExecuteNextFair ==
    []<>(pc # "executing") \/ []<><<ChatExecuteNext>>_vars

SpecChat ==
    /\ InitChat /\ [][Next]_vars
    /\ WF_vars(ModelResponds)
    /\ WF_vars(ChatFinal)
    /\ WF_vars(ChatToolCalls)
    /\ ChatExecuteNextFair

(***************************************************************************)
(* Properties                                                              *)
(***************************************************************************)
Executed == last.op = "execute_tool"
OnRegistered == Executed /\ last.name \in DOMAIN _executors
LastRefs == RefsOf(last.name)
ResolvedIdx(l) == {l.resolved[k].index : k \in 1..Len(l.resolved)}
FailedIdx(l) == {l.failed[k] : k \in 1..Len(l.failed)}
ReadIdx(l) == {l.reads[k].index : k \in 1..Len(l.reads)}
ReadUris(l) == {l.reads[k].uri : k \in 1..Len(l.reads)}
ResolvedValues(l) == {l.resolved[k].value : k \in 1..Len(l.resolved)}
EnvSet(ref) == has_env_var(ref) /\ _get_secret_from_env(ref) # Unset

\* C1: on the success path of execute_tool, the returned content holds no
\* verbatim occurrence of any non-empty secret value resolved for the call,
\* whether it came from the environment or from the store.
C1_SuccessContentHasNoSecret ==
    (Executed /\ last.ran /\ last.exc = "none") =>
        \A v \in ResolvedValues(last) :
            v # <<>> => ~Contains(last.result.content, v)

\* C2: when resolution or the executor raises, the message of the failure
\* result holds no secret value already resolved for the tool, from the
\* environment or from the store.
C2_FailureContentHasNoSecret ==
    (Executed /\ last.exc # "none") =>
        \A v \in ResolvedValues(last) :
            v # <<>> => ~Contains(last.result.content, v)

\* C4: execute_tool never raises: an unregistered name gives a failure result
\* that says so, with no secret resolved and no executor run, and an exception
\* of resolution or of the executor becomes a failure result.
C4_ExecuteToolNeverRaises ==
    Executed =>
        /\ ~last.raised
        /\ last.name \notin DOMAIN _executors =>
              /\ last.result = ToolResult(FALSE,
                     <<"Tool '", last.name, "' not registered with secrets broker">>)
              /\ ~last.ran
              /\ last.resolved = <<>> /\ last.reads = <<>> /\ last.failed = <<>>
        /\ last.exc # "none" => ~last.result.success

C4_Witness ==
    /\ OnRegistered
    /\ last.exc = "executor"
    /\ ~last.raised /\ ~last.result.success

\* C5: a reference with an environment variable and a store pair, whose
\* variable is set to a non-empty V, resolves to V without a CLI read,
\* whatever the cache holds for its URI.
C5_EnvironmentWins ==
    OnRegistered =>
        \A i \in 1..Len(LastRefs) :
            (has_op_reference(LastRefs[i]) /\ EnvSet(LastRefs[i])) =>
                /\ i \notin FailedIdx(last)
                /\ i \notin ReadIdx(last)
                /\ \A k \in 1..Len(last.resolved) :
                      last.resolved[k].index = i =>
                          last.resolved[k].value = environ[LastRefs[i].env_var]

C5_Witness ==
    /\ OnRegistered
    /\ \E k \in 1..Len(last.resolved) :
          LET ref == LastRefs[last.resolved[k].index]
          IN /\ has_op_reference(ref) /\ EnvSet(ref)
             /\ uri(ref) \in DOMAIN _secret_cache
             /\ _secret_cache[uri(ref)] # last.resolved[k].value
             /\ last.resolved[k].value = environ[ref.env_var]

\* C6: in live mode, when a reference of the called tool cannot be resolved,
\* execute_tool returns a failure result and the executor is not invoked.
C6_LiveFailureStopsTool ==
    (OnRegistered /\ require_secrets /\ last.failed # <<>>) =>
        /\ ~last.result.success
        /\ ~last.ran
        /\ last.executor = None

C6_Witness ==
    /\ OnRegistered /\ require_secrets
    /\ last.failed # <<>> /\ last.reads # <<>>
    /\ ~last.ran

Attempted(l) == ResolvedIdx(l) \cup FailedIdx(l)

\* C8 as stated: once a URI is cached, every later resolution of a reference
\* with that URI returns the cached value without a CLI read, until
\* clear_cache; a URI that is not cached is read from the CLI.
C8_CachedUriAlwaysAnswers ==
    [][(last'.op = "execute_tool" /\ last'.name \in DOMAIN _executors) =>
          /\ \A u \in DOMAIN _secret_cache :
                u \in DOMAIN _secret_cache' /\ _secret_cache'[u] = _secret_cache[u]
          /\ \A i \in Attempted(last') :
                LET u == uri(RefsOf(last'.name)[i])
                IN /\ u \in DOMAIN _secret_cache =>
                         /\ i \notin ReadIdx(last')
                         /\ i \in ResolvedIdx(last')
                         /\ \A k \in 1..Len(last'.resolved) :
                               last'.resolved[k].index = i =>
                                   last'.resolved[k].value = _secret_cache[u]
                   /\ (u # NoUri /\ u \notin DOMAIN _secret_cache) =>
                         u \in ReadUris(last')
      ]_vars

\* C8 amended: the same, for the references that are not answered from the
\* environment (no variable configured, or the variable unset or empty).
C8_CachedUriAnswersStoreReads ==
    [][(last'.op = "execute_tool" /\ last'.name \in DOMAIN _executors) =>
          /\ \A u \in DOMAIN _secret_cache :
                u \in DOMAIN _secret_cache' /\ _secret_cache'[u] = _secret_cache[u]
          /\ \A i \in Attempted(last') :
                LET ref == RefsOf(last'.name)[i]
                    u == uri(ref)
                IN ~EnvSet(ref) =>
                      /\ u \in DOMAIN _secret_cache =>
                            /\ i \notin ReadIdx(last')
                            /\ i \in ResolvedIdx(last')
                            /\ \A k \in 1..Len(last'.resolved) :
                                  last'.resolved[k].index = i =>
                                      last'.resolved[k].value = _secret_cache[u]
                      /\ (u # NoUri /\ u \notin DOMAIN _secret_cache) =>
                            u \in ReadUris(last')
      ]_vars

C8_Witness ==
    /\ OnRegistered
    /\ \E k \in 1..Len(last.resolved) :
          LET i == last.resolved[k].index
          IN /\ last.resolved[k].source = "op"
             /\ ~EnvSet(LastRefs[i])
             /\ i \notin ReadIdx(last)
             /\ uri(LastRefs[i]) \in DOMAIN _secret_cache
             /\ last.resolved[k].value = _secret_cache[uri(LastRefs[i])]

\* C3: no message of the conversation holds a secret value the broker
\* resolved, and the tool message of a delegated call is the content the
\* broker returned.
C3_ConversationHasNoSecret ==
    Executed =>
        /\ conversation[Len(conversation)].content = last.result.content
        /\ \A i \in 1..Len(conversation) :
              \A v \in ResolvedValues(last) :
                  v # <<>> => ~Contains(conversation[i].content, v)

\* C9: the count grows by the number of calls of every response that has
\* calls, the turn aborts exactly when the new count is above the maximum,
\* and a new chat call starts from the count the earlier ones left.
C9_CumulativeLimit ==
    [][/\ (pc = "answered" /\ pc' # "answered" /\ response.tool_calls # <<>>) =>
             /\ tool_call_count' = tool_call_count + Len(response.tool_calls)
             /\ (pc' = "idle" /\ chat_result'.kind = "RuntimeError")
                   <=> (tool_call_count + Len(response.tool_calls) > max_tool_calls)
             /\ (pc' = "executing")
                   <=> (tool_call_count + Len(response.tool_calls) <= max_tool_calls)
       /\ (pc = "idle" /\ pc' = "awaiting_model") =>
             tool_call_count' = tool_call_count
       /\ (tool_call_count' # tool_call_count) =>
             \/ pc = "answered" /\ response.tool_calls # <<>>
             \/ pc = "idle" /\ pc' = "idle" /\ tool_call_count' = 0
                /\ conversation' = <<>>
      ]_vars

C9_Witness ==
    /\ pc = "idle"
    /\ chat_result.kind = "RuntimeError"
    /\ tool_call_count > max_tool_calls
    /\ Len(response.tool_calls) <= max_tool_calls
    /\ \A j \in 1..Len(response.tool_calls) :
          _validate_tool_call(response.tool_calls[j]).ok
    /\ \E i \in 1..Len(conversation) : conversation[i].role = "tool"
    /\ Turns(conversation) = 2

\* C10: a response with n calls that passes the limit check leaves one
\* assistant message with the calls followed by one tool message per call, in
\* request order, each tagged with the id of its call or "unknown".
C10_OneToolMessagePerCall ==
    (pc \in {"executing", "awaiting_model"} /\ response.tool_calls # <<>>) =>
        LET n == Len(response.tool_calls)
            base == Len(conversation) - tc_index
        IN /\ pc = "awaiting_model" => tc_index = n
           /\ pc = "executing" => tc_index < n
           /\ base >= 1
           /\ conversation[base] =
                 Message("assistant", response.content, response.tool_calls, None)
           /\ \A j \in 1..tc_index :
                 LET tc == response.tool_calls[j]
                     m == conversation[base + j]
                 IN /\ m.role = "tool"
                    /\ m.tool_calls = <<>>
                    /\ m.tool_call_id = IF tc.id = None THEN "unknown" ELSE tc.id
                    /\ ~_validate_tool_call(tc).ok =>
                          m.content = <<"Error executing tool: ">>
                                      \o _validate_tool_call(tc).err

C10_Witness ==
    /\ pc = "awaiting_model"
    /\ Len(response.tool_calls) = 2
    /\ tc_index = 2
    /\ ~_validate_tool_call(response.tool_calls[1]).ok
    /\ response.tool_calls[2].id = None
    /\ _validate_tool_call(response.tool_calls[2]).ok
    /\ conversation[Len(conversation) - 1].tool_call_id = response.tool_calls[1].id
    /\ conversation[Len(conversation)].tool_call_id = "unknown"

\* C11: a request that fails validation does not end chat: its error text
\* becomes its tool message, the broker is not called for it, the loop moves
\* to the next request, and after the last one chat asks the model again.
C11_InvalidCallIsRecorded ==
    [][(/\ pc = "executing" /\ pc' # "stopped"
        /\ ~_validate_tool_call(response.tool_calls[tc_index + 1]).ok) =>
          LET tc == response.tool_calls[tc_index + 1]
          IN /\ conversation' =
                   Append(conversation,
                          Message("tool",
                                  <<"Error executing tool: ">>
                                      \o _validate_tool_call(tc).err,
                                  <<>>, IdOf(tc)))
             /\ last'.op # "execute_tool"
             /\ UNCHANGED <<_secret_cache, chat_result, response,
                            tool_call_count>>
             /\ tc_index' = tc_index + 1
             /\ pc' = IF tc_index + 1 < Len(response.tool_calls)
                      THEN "executing" ELSE "awaiting_model"
      ]_vars

C11_Witness ==
    /\ pc = "awaiting_model"
    /\ Len(response.tool_calls) = 2 /\ tc_index = 2
    /\ ~_validate_tool_call(response.tool_calls[1]).ok
    /\ _validate_tool_call(response.tool_calls[2]).ok
    /\ Executed /\ last.name = response.tool_calls[2].name
    /\ chat_result = NoResult
    /\ Contains(conversation[Len(conversation) - 1].content,
                <<"Error executing tool: ">>)

\* the entries of the registry the allow-list lets through, in registry order
AllowedEntries ==
    SelectSeq(tool_registry,
              LAMBDA d : allowed_tools = {} \/ d.name \in allowed_tools)

\* C12: a request is accepted exactly when its name is registered, the
\* allow-list is empty or has the name, and every required parameter is a key
\* of its arguments; the accepted ToolCall has the request's id (or "unknown"),
\* name and arguments.
C12_ValidationAcceptsExactly ==
    (last.op = "_validate_tool_call") =>
        LET r == last.request
            accepted ==
                /\ r.name \in RegistryNames(tool_registry)
                /\ allowed_tools = {} \/ r.name \in allowed_tools
                /\ LET required == RegistryGet(tool_registry, r.name).parameters.required
                   IN \A i \in 1..Len(required) : required[i] \in r.arguments
        IN /\ last.out.ok <=> accepted
           /\ last.out.ok =>
                 last.out.call = [id |-> IF r.id = None THEN "unknown" ELSE r.id,
                                  name |-> r.name, arguments |-> r.arguments]

C12_Witness ==
    /\ last.op = "_validate_tool_call"
    /\ last.out.ok
    /\ allowed_tools # {}
    /\ RegistryGet(tool_registry, last.request.name).parameters.required # <<>>
    /\ last.request.id # None

\* C13: for a registered, allowed tool with a required parameter missing
\* from the arguments, validation fails with the text that names the first
\* missing parameter, in the order of the required list, and the tool.
C13_MissingParameterNamed ==
    (/\ last.op = "_validate_tool_call"
     /\ last.request.name \in RegistryNames(tool_registry)
     /\ allowed_tools = {} \/ last.request.name \in allowed_tools) =>
        LET r == last.request
            required == RegistryGet(tool_registry, r.name).parameters.required
            miss == {i \in 1..Len(required) : required[i] \notin r.arguments}
        IN miss # {} =>
              LET first == CHOOSE i \in miss : \A j \in miss : i <= j
              IN /\ ~last.out.ok
                 /\ last.out.err = <<"Missing required parameter '",
                                     required[first], "' for tool '", r.name, "'">>

C13_Witness ==
    /\ last.op = "_validate_tool_call"
    /\ last.request.name \in RegistryNames(tool_registry)
    /\ allowed_tools # {} /\ last.request.name \in allowed_tools
    /\ LET required == RegistryGet(tool_registry, last.request.name).parameters.required
       IN /\ Len(required) = 2
          /\ \A i \in 1..2 : required[i] \notin last.request.arguments
          /\ last.out.err = <<"Missing required parameter '", required[1],
                              "' for tool '", last.request.name, "'">>

\* C14: the catalog offered to the model is the registered tools the
\* allow-list lets through (all of them for an empty allow-list), in registry
\* order, and the request body has a tools key only for a non-empty catalog.
C14_CatalogFollowsAllowList ==
    (last.op = "_call_ollama") =>
        /\ Len(last.tools) = Len(AllowedEntries)
        /\ \A i \in 1..Len(AllowedEntries) :
              /\ last.tools[i].type = "function"
              /\ last.tools[i].function = AllowedEntries[i]
        /\ ("tools" \in DOMAIN last.payload) <=> (AllowedEntries # <<>>)
        /\ AllowedEntries # <<>> => last.payload.tools = last.tools

C14_Witness ==
    /\ last.op = "_call_ollama"
    /\ Len(tool_registry) = 3
    /\ Len(last.tools) = 2
    /\ last.tools[1].function.name = "get_current_weather"
    /\ last.tools[2].function.name = "list_available_services"
    /\ last.payload.tools = last.tools

C14_WitnessEmpty ==
    /\ last.op = "_call_ollama"
    /\ tool_registry # <<>> /\ allowed_tools # {}
    /\ "tools" \notin DOMAIN last.payload

\* C19: after register_tool the lookup of the name gives the definition that
\* was registered, the registry has one entry per name, an existing name is
\* replaced where it stands, and the other entries are as before.
C19_RegisterThenLookup ==
    [][(last'.op = "register_tool") =>
          /\ RegistryGet(tool_registry', last'.name) =
                [name |-> last'.name, description |-> last'.description,
                 parameters |-> last'.parameters]
          /\ RegistryNames(tool_registry') =
                RegistryNames(tool_registry) \cup {last'.name}
          /\ Len(tool_registry') = Cardinality(RegistryNames(tool_registry'))
          /\ \A i \in 1..Len(tool_registry) :
                tool_registry[i].name # last'.name =>
                    tool_registry'[i] = tool_registry[i]
      ]_vars

C19_Witness ==
    /\ last.op = "register_tool"
    /\ Len(tool_registry) >= 2
    /\ tool_registry[1].name = last.name
    /\ tool_registry[1].description = "updated"
    /\ tool_registry[1].description = last.description
    /\ tool_registry[1].parameters = last.parameters

\* C15: reset empties the conversation and zeroes the counter, and leaves
\* the broker's cache, executors and references and the tool registry alone.
C15_ResetFrame ==
    [][(last'.op = "reset") =>
          /\ conversation' = <<>>
          /\ tool_call_count' = 0
          /\ UNCHANGED <<_secret_cache, _executors, _secret_refs,
                         tool_registry, require_secrets>>
      ]_vars

C15_Witness ==
    /\ last.op = "reset"
    /\ _secret_cache # <<>>
    /\ chat_result.kind = "returned"
    /\ conversation = <<>> /\ tool_call_count = 0

\* C16: an answer without tool calls ends chat: its content is appended as
\* an assistant message without tool calls, the last entry, and is the value
\* returned; chat returns in no other way.
C16_FinalAnswerReturned ==
    [][/\ (pc = "answered" /\ response.tool_calls = <<>> /\ pc' # "answered") =>
             /\ conversation' =
                   Append(conversation,
                          Message("assistant", response.content, <<>>, None))
             /\ chat_result' = Returned(response.content)
             /\ pc' = "idle"
             /\ UNCHANGED tool_call_count
       /\ (chat_result'.kind = "returned" /\ chat_result' # chat_result) =>
             /\ pc = "answered" /\ response.tool_calls = <<>>
       /\ (chat_result.kind = "returned" /\ pc = "idle" /\ conversation # <<>>) =>
             /\ conversation[Len(conversation)].role = "assistant"
             /\ conversation[Len(conversation)].content = chat_result.text
             /\ conversation[Len(conversation)].tool_calls = <<>>
      ]_vars

C16_Witness ==
    /\ pc = "idle"
    /\ chat_result.kind = "returned"
    /\ Len(conversation) >= 4
    /\ conversation[Len(conversation)] =
          Message("assistant", chat_result.text, <<>>, None)
    /\ conversation[Len(conversation) - 1].role = "tool"

\* the conversation as it was when the pending chat was called: chat appends
\* the user message first, and no later message of a turn has the user role
BeforeTurn(conv) ==
    LET users == {i \in 1..Len(conv) : conv[i].role = "user"}
    IN IF users = {} THEN conv
       ELSE SubSeq(conv, 1, (CHOOSE i \in users : \A j \in users : j <= i) - 1)

\* C17: when a pending chat is interrupted, the conversation is what it was
\* before chat was called: no message of the interrupted turn remains.
C17_InterruptedTurnNotApplied ==
    [][(pc # "stopped" /\ pc' = "stopped") =>
          conversation' = BeforeTurn(conversation)
      ]_vars

FatalKinds == {"OllamaConnectionError", "OllamaResponseError", "RuntimeError"}

\* C18: a connection, response or limit error leaves chat to the caller with
\* the orchestrator idle; a reset after it gives the state of a new
\* orchestrator (no history, counter 0), and the chat that follows starts as
\* the first chat of a new orchestrator does.
C18_ResetAfterFatalError ==
    [][/\ ((pc = "awaiting_model" \/ pc = "answered") /\ pc' = "idle"
           /\ chat_result'.kind # "returned") =>
             chat_result'.kind \in FatalKinds
       /\ (chat_result.kind \in FatalKinds /\ last'.op = "reset") =>
             /\ conversation' = <<>>
             /\ tool_call_count' = 0
             /\ pc' = "idle"
       /\ (last.op = "reset" /\ pc' = "awaiting_model") =>
             /\ Len(conversation') = 1
             /\ conversation'[1].role = "user"
             /\ tool_call_count' = 0
             /\ chat_result' = NoResult /\ response' = NoResponse /\ tc_index' = 0
      ]_vars

C18_Witness ==
    /\ pc = "awaiting_model"
    /\ Len(conversation) = 1
    /\ tool_call_count = 0
    /\ _secret_cache # <<>>

C18_WitnessReset ==
    /\ last.op = "reset"
    /\ chat_result.kind = "RuntimeError"
    /\ conversation = <<>> /\ tool_call_count = 0

\* C20: after register_tool(name, executor, secrets) the executor and the
\* references execute_tool uses for the name are those of this registration,
\* also when it has no references.
C20_RegistrationOverwrites ==
    [][(last'.op = "SecretsBroker.register_tool") =>
          /\ _executors'[last'.name] = last'.executor
          /\ (IF last'.name \in DOMAIN _secret_refs'
              THEN _secret_refs'[last'.name] ELSE <<>>) = last'.secrets
      ]_vars

\* C21: a resolved secret value no longer than the threshold (the claim's
\* example: a 4-character PIN) that occurs in the executor's content is
\* still there in the content execute_tool returns.
C21_ShortSecretLeftUnchanged ==
    (Executed /\ last.ran /\ last.exc = "none") =>
        \A v \in DictValues(last.given) :
            (v # <<>> /\ Len(v) <= 4 /\ Contains(last.raw, v)) =>
                Contains(last.result.content, v)

\* the city of the mock table each input location stands for, and the
\* figures of the table in both units
CityOf ==
    (<<"London">> :> "london") @@ (<<"london">> :> "london")
    @@ (<<"PARIS", ",", " ", "FR">> :> "paris")
    @@ (<<" ", "Tokyo", " ">> :> "tokyo")
    @@ (<<"New", " ", "York">> :> "new york")
    @@ (<<"San", " ", "Francisco", ",", "CA">> :> "san francisco")
    @@ (<<"Atlantis">> :> "other") @@ (<<"Atlantis", ",", "london">> :> "other")
    @@ (<<"Unknown">> :> "other")

ExpectedCelsius ==
    [paris |-> "12", london |-> "8", tokyo |-> "18", new_york |-> "5",
     san_francisco |-> "15", other |-> "20"]

ExpectedFahrenheit ==
    [paris |-> "54", london |-> "46", tokyo |-> "64", new_york |-> "41",
     san_francisco |-> "59", other |-> "68"]

CityKey(c) ==
    IF c = "new york" THEN "new_york"
    ELSE IF c = "san francisco" THEN "san_francisco" ELSE c

\* C28: without an api_key in the secrets the weather executor succeeds with
\* mock data: the table's Celsius figure for format celsius, its rounded
\* Fahrenheit conversion for format fahrenheit, 20 degrees Celsius for a
\* location the table does not have.
C28_MockWeatherTemperature ==
    (last.op = "execute_get_current_weather"
     /\ ~DictHas(last.secrets, "api_key")) =>
        LET arguments == last.arguments
            location == IF "location" \in DOMAIN arguments
                        THEN arguments.location ELSE <<"Unknown">>
            city == CityKey(CityOf[location])
            data == last.result.content[2]
        IN /\ last.result.success
           /\ last.result.content[1] = "json"
           /\ data.source = "mock_data"
           /\ ("format" \in DOMAIN arguments /\ arguments.format = "celsius") =>
                 data.temperature = <<ExpectedCelsius[city], "deg", "C">>
           /\ ("format" \in DOMAIN arguments /\ arguments.format = "fahrenheit") =>
                 data.temperature = <<ExpectedFahrenheit[city], "deg", "F">>

C28_Witness ==
    /\ last.op = "execute_get_current_weather"
    /\ ~DictHas(last.secrets, "api_key")
    /\ last.arguments = [location |-> <<"PARIS", ",", " ", "FR">>,
                         format |-> "fahrenheit"]
    /\ last.result.content[2].temperature = <<"54", "deg", "F">>

FailedReadKinds(l) ==
    {l.reads[k].kind : k \in {j \in 1..Len(l.reads) : l.reads[j].kind # "exit0"}}

\* C22: when a store read of the call failed, the content execute_tool
\* returns does not hold the diagnostic the CLI wrote: in live mode the call
\* fails with the broker's own message, in mock mode the executor runs.
C22_CliDiagnosticNotEchoed ==
    (OnRegistered /\ "nonzero" \in FailedReadKinds(last)) =>
        /\ ~Contains(last.result.content, <<StderrText>>)
        /\ require_secrets => (last.exc = "resolve" /\ ~last.result.success)
        /\ ~require_secrets => last.ran

C22_Witness ==
    /\ OnRegistered /\ require_secrets
    /\ "nonzero" \in FailedReadKinds(last)
    /\ last.exc = "resolve"
    /\ ~last.result.success

\* C23: in live mode, for a registered tool whose references need a read of
\* the store, the failure result of execute_tool carries pairwise different
\* messages for the three ways the CLI can fail: a non-zero exit, a timeout,
\* no executable.
FailureKinds == {"nonzero", "timeout", "notfound"}
CliFailure(kind) == CHOOSE o \in CliOutcomes : o.kind = kind
FailureOf(name, kind) ==
    execute_tool(ToolCall("test", name, {}),
                 [u \in ReadsNeeded(name) |-> CliFailure(kind)],
                 [kind |-> "return", success |-> TRUE, text |-> <<>>])
C23_FailureKindsDistinct ==
    \A name \in DOMAIN _executors :
        (/\ require_secrets
         /\ \A k \in FailureKinds :
               /\ FailureOf(name, k).exc = "resolve"
               /\ FailureOf(name, k).reads # <<>>)
        => \A k1, k2 \in FailureKinds :
              k1 # k2 => FailureOf(name, k1).result.content
                            # FailureOf(name, k2).result.content

\* C24: a call of execute_tool made by the chat loop in which a secret could
\* not be resolved never ends the turn: the loop appends the call's tool
\* message holding the broker's result and goes on; in live mode that result
\* is a failure and the executor did not run, in mock mode the executor ran.
C24_ResolutionFailureNotFatal ==
    [][(pc = "executing" /\ last'.op = "execute_tool" /\ last'.failed # <<>>) =>
          /\ pc' \in {"executing", "awaiting_model"}
          /\ chat_result' = chat_result
          /\ tc_index' = tc_index + 1
          /\ conversation' =
                Append(conversation,
                       Message("tool", last'.result.content, <<>>,
                               IdOf(response.tool_calls[tc_index + 1])))
          /\ require_secrets =>
                /\ ~last'.result.success
                /\ ~last'.ran
                /\ last'.exc = "resolve"
          /\ ~require_secrets =>
                /\ last'.ran
                /\ last'.exc # "resolve"]_vars

C24_Witness ==
    /\ require_secrets
    /\ pc = "awaiting_model"
    /\ last.op = "execute_tool" /\ last.failed # <<>>
    /\ ~last.result.success
    /\ conversation[Len(conversation)] =
          Message("tool", last.result.content, <<>>,
                  IdOf(response.tool_calls[tc_index]))

C24_WitnessMock ==
    /\ ~require_secrets
    /\ pc \in {"executing", "awaiting_model"}
    /\ last.op = "execute_tool" /\ last.failed # <<>>
    /\ last.ran

\* C25: a SecretReference has a store URI exactly when has_op_reference is
\* true, the URI is then op://<vault>/<item>/<field> with field "password"
\* when none was given, and _get_secret_from_op never works with a None URI.
NoneUriUsed(got) ==
    got.err = <<"TypeError: expected str, bytes or os.PathLike object">>
C25_UriIffOpReference ==
    last.op = "SecretReference" =>
        /\ last.uri # NoUri <=> last.has_op_reference
        /\ last.uri # NoUri =>
              last.uri = <<"op://", last.ref.vault, "/", last.ref.item, "/",
                           IF last.field_given = None THEN "password"
                           ELSE last.field_given>>
        /\ ~NoneUriUsed(last.from_op)

\* the part of C25 that holds: a truthy (vault, item) pair gives the URI, with
\* the default field, and the read is made with that URI
C25_UriOfPresentPair ==
    (last.op = "SecretReference" /\ Truthy(last.ref.vault) /\ Truthy(last.ref.item)) =>
        /\ last.has_op_reference
        /\ last.uri = <<"op://", last.ref.vault, "/", last.ref.item, "/",
                        IF last.field_given = None THEN "password"
                        ELSE last.field_given>>
        /\ ~NoneUriUsed(last.from_op)
        /\ last.from_op.reads = <<last.uri>>

\* C26: after a successful execute_tool, every secret resolved for the call
\* has an entry in the secret cache under its identity, the store URI when it
\* came from the store and the name of the variable when it came from the
\* environment, holding the resolved value.
IdentityOf(ref, source) == IF source = "op" THEN uri(ref) ELSE <<ref.env_var>>
C26_ResolvedSecretsAreCached ==
    (OnRegistered /\ last.ran /\ last.exc = "none") =>
        \A k \in 1..Len(last.resolved) :
            LET e == last.resolved[k]
                id == IdentityOf(LastRefs[e.index], e.source)
            IN /\ id \in DOMAIN _secret_cache
               /\ _secret_cache[id] = e.value

\* the part of C26 that holds: a secret that came from the store is cached
\* under its URI
C26_StoreSecretsAreCached ==
    (OnRegistered /\ last.ran /\ last.exc = "none") =>
        \A k \in 1..Len(last.resolved) :
            LET e == last.resolved[k]
                id == uri(LastRefs[e.index])
            IN e.source = "op" =>
                  /\ id \in DOMAIN _secret_cache
                  /\ _secret_cache[id] = e.value

\* C27: every step of a chat call, one that ends the call with an error
\* included, leaves the conversation it found as a prefix of the conversation
\* it leaves; the conversation is emptied by reset alone, and reset runs only
\* between chat calls.
IsPrefix(a, b) == Len(a) <= Len(b) /\ SubSeq(b, 1, Len(a)) = a
C27_ConversationAppendOnly ==
    [][/\ last'.op # "reset" => IsPrefix(conversation, conversation')
       /\ last'.op = "reset" => (pc = "idle" /\ conversation' = <<>>)
       /\ (pc # "idle" /\ pc' = "idle") =>
             /\ IsPrefix(conversation, conversation')
             /\ conversation' # <<>>]_vars

\* a chat call that ended with an error and left its messages in the history
C27_Witness ==
    /\ pc = "idle"
    /\ chat_result.kind \in FatalKinds
    /\ Len(conversation) >= 3
    /\ conversation[Len(conversation)].role = "tool"

\* C29: setup_tools_from_config fails with an error exactly when the
\* configuration names an executor that does not exist; when it succeeds,
\* every tool of the configuration is in the tool registry with its
\* description and parameters and in the broker's executors with the executor
\* it names, and its secret references are built from the given vault with
\* the configured item and field, in order.
UnknownExecutors(tools) ==
    {i \in 1..Len(tools) : tools[i].executor \notin DOMAIN TOOL_EXECUTORS}
C29_WitnessUnknownExecutor ==
    /\ last.op = "setup_tools_from_config"
    /\ last.raised
    /\ last.err.kind = "ValueError"

\* C30: every chat call ends, with a final answer or an error; since the last
\* reset at most max_tool_calls responses with tool calls pass the limit
\* check, and the response with tool calls that follows them ends the call
\* with the limit error.
ToolRounds(conv) ==
    Cardinality({i \in 1..Len(conv) :
                    conv[i].role = "assistant" /\ conv[i].tool_calls # <<>>})
C30_ChatTerminates ==
    /\ [](ToolRounds(conversation) <= max_tool_calls
          /\ (pc \in {"executing", "awaiting_model"} =>
                 ToolRounds(conversation) <= tool_call_count))
    /\ [][(pc = "answered" /\ pc' # "answered" /\ response.tool_calls # <<>>
           /\ ToolRounds(conversation) = max_tool_calls) =>
             (pc' = "idle" /\ chat_result'.kind = "RuntimeError")]_vars
    /\ (pc = "awaiting_model") ~> (pc \in {"idle", "stopped"})

\* the call ended by the limit on the response after max_tool_calls passed
C30_Witness ==
    /\ pc = "idle"
    /\ chat_result.kind = "RuntimeError"
    /\ ToolRounds(conversation) = max_tool_calls
    /\ tool_call_count = max_tool_calls + 1

\* C31: in every reachable state the number of tool messages in the
\* conversation, and among them the number that hold a result of the broker
\* (the calls delegated since the last reset), are at most tool_call_count
\* and at most max_tool_calls.
IsValidationError(m) ==
    /\ Len(m.content) >= 1
    /\ m.content[1] = "Error executing tool: "
ToolMessages(conv) ==
    Cardinality({i \in 1..Len(conv) : conv[i].role = "tool"})
Delegated(conv) ==
    Cardinality({i \in 1..Len(conv) :
                    conv[i].role = "tool" /\ ~IsValidationError(conv[i])})
C31_DelegationsBounded ==
    /\ Delegated(conversation) <= ToolMessages(conversation)
    /\ ToolMessages(conversation) <= tool_call_count
    /\ ToolMessages(conversation) <= max_tool_calls

C31_Witness ==
    /\ ToolMessages(conversation) = max_tool_calls
    /\ Delegated(conversation) = max_tool_calls
    /\ tool_call_count = max_tool_calls
    /\ last.op = "execute_tool"

\* C32: no step other than reset lowers tool_call_count; a response with
\* tool calls adds the number of its calls, valid or not, also when it is the
\* response that is refused; and once the count is above the maximum, every
\* response with a tool call ends its turn with the limit error and leaves
\* the conversation as it was, until reset.
C32_CountOnlyGrowsUntilReset ==
    [][/\ last'.op # "reset" => tool_call_count' >= tool_call_count
       /\ (tool_call_count' < tool_call_count) =>
             (last'.op = "reset" /\ tool_call_count' = 0)
       /\ (pc = "answered" /\ pc' = "idle" /\ response.tool_calls # <<>>) =>
             tool_call_count' = tool_call_count + Len(response.tool_calls)
       /\ (pc = "answered" /\ pc' # "answered" /\ response.tool_calls # <<>>
           /\ tool_call_count > max_tool_calls) =>
             /\ pc' = "idle"
             /\ chat_result'.kind = "RuntimeError"
             /\ conversation' = conversation
             /\ tool_call_count' > tool_call_count]_vars

\* a second turn refused after the count had already passed the maximum
C32_Witness ==
    /\ pc = "idle"
    /\ chat_result.kind = "RuntimeError"
    /\ Turns(conversation) = 2
    /\ tool_call_count >= max_tool_calls + 2
    /\ \E i \in 1..Len(conversation) :
          conversation[i].role = "tool" /\ IsValidationError(conversation[i])

\* C33: the step that refuses a response for the limit appends nothing to the
\* conversation, validates and executes none of its calls and leaves the
\* broker as it was; the tool loop only ever runs for a response that passed
\* the check.
C33_LimitAbortAllOrNothing ==
    /\ [][(pc = "answered" /\ response.tool_calls # <<>>
           /\ tool_call_count + Len(response.tool_calls) > max_tool_calls
           /\ pc' # "answered") =>
             /\ pc' = "idle"
             /\ chat_result'.kind = "RuntimeError"
             /\ conversation' = conversation
             /\ tc_index' = 0
             /\ last'.op = "none"
             /\ UNCHANGED brokerVars]_vars
    /\ [](pc = "executing" =>
            /\ tool_call_count <= max_tool_calls
            /\ conversation[Len(conversation) - tc_index].tool_calls
                  = response.tool_calls)
    /\ []((pc = "idle" /\ chat_result.kind = "RuntimeError") =>
            /\ response.tool_calls # <<>>
            /\ \A i \in 1..Len(conversation) :
                  conversation[i].role = "assistant" =>
                     \/ conversation[i].tool_calls = <<>>
                     \/ i < Len(conversation))

\* the first response of a turn refused: the user message is the last one
C33_Witness ==
    /\ pc = "idle"
    /\ chat_result.kind = "RuntimeError"
    /\ Len(response.tool_calls) = 2
    /\ conversation # <<>>
    /\ conversation[Len(conversation)].role = "user"
    /\ \A j \in 1..2 : _validate_tool_call(response.tool_calls[j]).ok

\* C34: every call of execute_tool the chat loop makes is for a request that
\* names a registered tool, allowed by a non-empty allow-list, with all its
\* required parameters, hence a tool among those offered to the model; a
\* request that fails one of the three never reaches the broker.
OfferedNames ==
    {get_tool_definitions[i].function.name : i \in 1..Len(get_tool_definitions)}
PassesValidation(tc) ==
    /\ tc.name \in RegistryNames(tool_registry)
    /\ allowed_tools = {} \/ tc.name \in allowed_tools
    /\ LET required == RegistryGet(tool_registry, tc.name).parameters.required
       IN \A i \in 1..Len(required) : required[i] \in tc.arguments
C34_OnlyValidatedCallsExecuted ==
    [][/\ last'.op = "execute_tool" =>
             /\ pc = "executing"
             /\ LET tc == response.tool_calls[tc_index + 1]
                IN /\ PassesValidation(tc)
                   /\ last'.name = tc.name
                   /\ tc.name \in OfferedNames
       /\ (pc = "executing" /\ pc' # "stopped"
           /\ ~PassesValidation(response.tool_calls[tc_index + 1])) =>
             /\ last'.op = "none"
             /\ UNCHANGED brokerVars]_vars

\* a response of two requests, the first refused and the second executed
C34_Witness ==
    /\ pc = "awaiting_model"
    /\ Len(response.tool_calls) = 2
    /\ ~PassesValidation(response.tool_calls[1])
    /\ response.tool_calls[1].name \in RegistryNames(tool_registry)
    /\ last.op = "execute_tool"
    /\ last.name = response.tool_calls[2].name
    /\ IsValidationError(conversation[Len(conversation) - 1])

\* C35: a reference whose environment variable is configured but unset or
\* empty is resolved as if it had no variable: with a (vault, item) pair the
\* store answers (from the cache or by a read) or the read fails; without a
\* pair the reference fails without a read, which stops the call in live mode
\* and leaves the field out in mock mode.
EnvAbsent(ref) == has_env_var(ref) /\ ~EnvSet(ref)
C35_EmptyVariableIsAbsent ==
    OnRegistered =>
        \A i \in Attempted(last) :
            LET ref == LastRefs[i]
            IN EnvAbsent(ref) =>
                  /\ \A k \in 1..Len(last.resolved) :
                        last.resolved[k].index = i =>
                           /\ last.resolved[k].source = "op"
                           /\ has_op_reference(ref)
                           /\ last.resolved[k].value = _secret_cache[uri(ref)]
                  /\ (has_op_reference(ref) /\ i \in FailedIdx(last)) =>
                        i \in ReadIdx(last)
                  /\ ~has_op_reference(ref) =>
                        /\ i \in FailedIdx(last)
                        /\ i \notin ReadIdx(last)
                        /\ require_secrets =>
                              (~last.result.success /\ ~last.ran
                               /\ last.exc = "resolve")
                        /\ ~require_secrets =>
                              /\ last.ran
                              /\ (\A j \in ResolvedIdx(last) :
                                     LastRefs[j].field # ref.field)
                                  => ref.field \notin DictKeys(last.given)

\* the variable is set to the empty string and the store answers
C35_Witness ==
    /\ OnRegistered
    /\ \E k \in 1..Len(last.resolved) :
          LET ref == LastRefs[last.resolved[k].index]
          IN /\ has_env_var(ref)
             /\ environ[ref.env_var] = <<>>
             /\ last.resolved[k].source = "op"
             /\ last.resolved[k].index \in ReadIdx(last)

C35_WitnessNoStore ==
    /\ OnRegistered /\ ~require_secrets /\ last.ran
    /\ \E i \in FailedIdx(last) :
          /\ EnvAbsent(LastRefs[i]) /\ ~has_op_reference(LastRefs[i])
          /\ environ[LastRefs[i].env_var] = Unset
    /\ last.given = <<>>

\* C36: the secret cache changes in two ways only. A call of execute_tool
\* adds one entry for the URI of each store read that succeeded and changes
\* no other entry; clear_cache empties it. A failed read leaves no entry, so
\* the next resolution of a reference with that URI reads again; resolving
\* from the environment, registering a tool and every other operation leave
\* the cache as it was.
ReadUrisOfKind(l, kinds) ==
    {l.reads[k].uri : k \in {j \in 1..Len(l.reads) : l.reads[j].kind \in kinds}}
IsClearCache ==
    /\ _secret_cache' = <<>>
    /\ last'.op = "none"
    /\ UNCHANGED <<require_secrets, _executors, _secret_refs, environ,
                   tool_registry, allowed_tools, orchVars>>
C36_CacheFrame ==
    [][/\ (_secret_cache' # _secret_cache) =>
             (last'.op = "execute_tool" \/ IsClearCache)
       /\ last'.op = "execute_tool" =>
             /\ DOMAIN _secret_cache' =
                   DOMAIN _secret_cache \cup ReadUrisOfKind(last', {"exit0"})
             /\ \A u \in DOMAIN _secret_cache :
                   _secret_cache'[u] = _secret_cache[u]
             /\ ReadUrisOfKind(last', {"exit0"}) \cap DOMAIN _secret_cache = {}
             /\ ReadUrisOfKind(last', {"nonzero", "timeout", "notfound"})
                   \cap DOMAIN _secret_cache' = {}
             /\ \A k \in 1..Len(last'.resolved) :
                   last'.resolved[k].source = "env" =>
                      last'.resolved[k].index \notin ReadIdx(last')
             /\ \A i \in Attempted(last') :
                   LET ref == RefsOf(last'.name)[i]
                   IN (~EnvSet(ref) /\ uri(ref) # NoUri
                       /\ uri(ref) \notin DOMAIN _secret_cache) =>
                         i \in ReadIdx(last')]_vars

\* a read failed while the cache held the entry of an earlier read: the entry
\* is kept and the failed URI has none
C36_Witness ==
    /\ OnRegistered
    /\ _secret_cache # <<>>
    /\ \E k \in 1..Len(last.reads) :
          /\ last.reads[k].kind # "exit0"
          /\ last.reads[k].uri \notin DOMAIN _secret_cache

\* C37: every non-empty secret value resolved during a call of execute_tool
\* is among the values the call's result is scrubbed with, also when two
\* references of the tool have the same field name.
ScrubbedValues(l) ==
    IF l.exc = "none"
    THEN DictValues(l.given)
    ELSE DictValues(CachedSecretsFrom(RefsOf(l.name), l.cache, 1, <<>>))
C37_ResolvedValuesAreScrubbed ==
    OnRegistered =>
        \A v \in ResolvedValues(last) :
            v # <<>> => v \in ScrubbedValues(last)

\* C37 on the path where the executor returned: the values of the
\* field-to-value mapping are the ones scrubbed
C37_ResolvedValuesAreScrubbedOnReturn ==
    (OnRegistered /\ last.ran /\ last.exc = "none") =>
        \A v \in ResolvedValues(last) :
            v # <<>> => v \in DictValues(last.given)

\* what does hold: without two references of one field name, the values
\* resolved for an executor that returned are the values scrubbed
C37_DistinctFieldsAreScrubbed ==
    (OnRegistered /\ last.ran /\ last.exc = "none"
     /\ \A i, j \in 1..Len(LastRefs) :
           i # j => LastRefs[i].field # LastRefs[j].field) =>
        ResolvedValues(last) = DictValues(last.given)

\* C38: two runs of execute_tool that differ only in the non-empty value of
\* the secret, with an executor that embeds the secret in a fixed text,
\* return the same content; and a secret value that its own pass of
\* _scrub_output removed is not in the final content after the later passes.
C38_ScrubbedOutputIndependentOfSecret ==
    /\ last.op = "execute_twice" =>
          last.result1.content = last.result2.content
    /\ last.op = "_scrub_output" =>
          LET v == last.secrets[1][2]
          IN ~Contains(last.first, v) => ~Contains(last.out, v)

\* the two halves of C38, each on its own
C38_SameContentForAnySecret ==
    last.op = "execute_twice" => last.result1.content = last.result2.content
C38_NoSecretReappears ==
    last.op = "_scrub_output" =>
        LET v == last.secrets[1][2]
        IN ~Contains(last.first, v) => ~Contains(last.out, v)

\* what does hold: when each value occurs in its content at the place it was
\* embedded and nowhere else, the two runs return prefix, marker, suffix
Occurrences(s, sub) ==
    {i \in 1..Len(s) : i + Len(sub) - 1 <= Len(s)
                       /\ SubSeq(s, i, i + Len(sub) - 1) = sub}
EmbeddedOnce(prefix, v, suffix) ==
    Occurrences(prefix \o v \o suffix, v) = {Len(prefix) + 1}
C38_SameContentWhenEmbeddedOnce ==
    (/\ last.op = "execute_twice"
     /\ EmbeddedOnce(last.prefix, last.v1, last.suffix)
     /\ EmbeddedOnce(last.prefix, last.v2, last.suffix)) =>
        /\ last.result1.content = last.prefix \o REDACTED \o last.suffix
        /\ last.result2.content = last.result1.content

\* C39: when setup_tools_from_config fails on an unknown executor, no tool of
\* the configuration has been added: the tool registry is what it was before
\* the call and the broker holds no executor and no secret reference.
C39_FailedSetupRegistersNothing ==
    [][(last'.op = "setup_tools_from_config" /\ last'.raised) =>
          /\ tool_registry' = tool_registry
          /\ _executors' = <<>>
          /\ _secret_refs' = <<>>
          /\ last'.registered = <<>>]_vars

\* what does hold: a failed setup has registered, in the registry and in the
\* broker alike, exactly the tools that come before the first unknown executor
FirstUnknown(tools) ==
    CHOOSE i \in UnknownExecutors(tools) :
        \A j \in UnknownExecutors(tools) : i <= j
C39_FailedSetupKeepsEarlierTools ==
    (last.op = "setup_tools_from_config" /\ last.raised) =>
        LET n == FirstUnknown(last.tools) - 1
        IN /\ last.registered = [i \in 1..n |-> last.tools[i].name]
           /\ DOMAIN _executors = {last.tools[i].name : i \in 1..n}
           /\ \A i \in 1..n : last.tools[i].name \in RegistryNames(tool_registry)
           /\ last.tools[n + 1].name \notin DOMAIN _executors

====
